---------------------------- MODULE Spec2Model ----------------------------
(***************************************************************************)
(* Verification model of the Go-Home route planning engine:                *)
(*   - route_calculator.py : RouteCalculator (parse keys, enumeration,     *)
(*     transfer feasibility, accommodation fee, filter + sort)             *)
(*   - segment_query.py    : SegmentQueryEngine (segment planner, query    *)
(*     scheduler, flight retry loop, station-code cache)                   *)
(*                                                                         *)
(* Strings are sequences of atomic tokens ("_" is one token, a Chinese     *)
(* word is one ASCII token), so that split("_"), f"{a}_{b}_{t}" and the    *)
(* substring tests of the source are computed, not assumed.  Times of day  *)
(* are minutes since midnight, dates are day numbers, datetimes are        *)
(* minutes since day 0.                                                    *)
(***************************************************************************)
EXTENDS Integers, Sequences, FiniteSets, TLC

VARIABLES
    \* ---- RouteCalculator.calculate_all_routes: arguments, fields, result
    origin, destination, date, segment_data, hub_cities,
    accommodation_threshold_hours, accommodation_enabled,
    all_routes, feasible_routes, calc_pc,
    \* ---- SegmentQueryEngine.build_segment_queries: arguments and result
    include_direct, transport_filter, queries, plan_pc,
    \* ---- the gateway (mcp_manager): service flags
    flight_running, train_running,
    \* ---- SegmentQueryEngine fields
    segment_results,     \* _segment_results : segment_id -> SegmentResult
    station_cache,       \* _station_cache : city -> station code
    station_cache_lock,  \* _station_cache_lock : 0 when free, else the task holding it
    \* ---- SegmentQueryEngine.execute_parallel_queries: one run
    max_workers,         \* argument
    exec_pc,             \* "idle", "ready", "phase1", "phase2", "returned"
    completed,           \* completed[0]
    workers,             \* train_worker tasks of the pool, by position in queries
    flight_idx,          \* position of the serial loop in flight_queries
    flight_pc,           \* "next", "wait", "record", "callback"
    retry_count,         \* retry_count of the flight query in progress
    flight_history,      \* outcomes of the flight calls of the query in progress
    flight_result,       \* result of the flight query in progress
    progress_calls,      \* first arguments received by progress_callback
    returned_map,        \* the value returned by execute_parallel_queries
    results_before_run,  \* history: _segment_results as the run found it
    station_calls,       \* history: city -> calls of the station-code tool in the run
    results_order,       \* insertion order of the keys of _segment_results
    provider,            \* the providers behind the gateway: any reply, or a fixed
                         \* function of the request
    run_no,              \* the caller: first or second trip query on this engine
    first_plans,         \* the caller: the plan list the first trip query produced
    cancel_signalled,    \* the caller: the user has asked to halt the run
    max_count,           \* get_hubs_for_route: the largest number of hubs asked for
    use_international_hubs, \* get_hubs_for_route: international hubs allowed
    route_type,          \* get_hubs_for_route: the route type it detected
    hubs_pc,             \* position of the caller in get_hubs_for_route
    probe_in,            \* arguments of a function called on its own
    probe_out,           \* what the function returned for them
    flight_warmed_up,    \* _flight_warmed_up
    warmup_calls         \* the calls of warmup_flight_service made so far, in order

routeVars == <<origin, destination, date, segment_data, hub_cities,
               accommodation_threshold_hours, accommodation_enabled,
               all_routes, feasible_routes, calc_pc>>
planVars == <<include_direct, transport_filter, queries, plan_pc>>
execVars == <<flight_running, train_running, segment_results, station_cache,
             station_cache_lock,
              max_workers, exec_pc, completed, workers, flight_idx, flight_pc,
              retry_count, flight_history, flight_result, progress_calls,
              returned_map, results_before_run, station_calls, results_order,
              provider, run_no, first_plans, cancel_signalled,
              max_count, use_international_hubs, route_type, hubs_pc,
              probe_in, probe_out, flight_warmed_up, warmup_calls>>
gatewayVars == <<flight_running, train_running, max_workers, provider>>
hubSelectionVars == <<max_count, use_international_hubs, route_type, hubs_pc>>
warmupVars == <<flight_warmed_up, warmup_calls>>
standaloneVars == <<probe_in, probe_out, warmupVars>>
callerVars == <<run_no, first_plans, cancel_signalled, hubSelectionVars,
                standaloneVars>>
flightLoopVars == <<flight_idx, flight_pc, retry_count, flight_history, flight_result>>

-----------------------------------------------------------------------------
(* Generic sequence helpers *)

\* no function is being called on its own
\* SegmentQueryEngine.__init__: self._flight_warmed_up = False
WarmupIdle == flight_warmed_up = FALSE /\ warmup_calls = <<>>

StandaloneIdle == probe_in = <<>> /\ probe_out = <<>> /\ WarmupIdle

\* get_hubs_for_route is not being called; its defaults
HubsIdle ==
    /\ max_count = 15 /\ use_international_hubs = TRUE
    /\ route_type = "" /\ hubs_pc = "idle"

Min(a, b) == IF a <= b THEN a ELSE b

\* dictionaries: functions on the set of their keys
EmptyMap == [k \in {} |-> k]
MapPut(m, key, value) ==
    [k \in (DOMAIN m) \cup {key} |-> IF k = key THEN value ELSE m[k]]
\* a dict keeps its keys in insertion order; a key written again keeps its place
KeyOrderPut(order, key) ==
    IF \E i \in 1..Len(order) : order[i] = key THEN order ELSE Append(order, key)

\* s[:n] of Python
Take(s, n) == SubSeq(s, 1, Min(n, Len(s)))

\* [y for x in s for y in F(x)]
ConcatMap(F(_), s) ==
    LET f[i \in 0..Len(s)] == IF i = 0 THEN <<>> ELSE f[i-1] \o F(s[i])
    IN f[Len(s)]

\* Python's  sub in s  on strings: sub is a contiguous part of s
Contains(s, sub) ==
    \E i \in 1..(Len(s) - Len(sub) + 1) : SubSeq(s, i, i + Len(sub) - 1) = sub

\* str.lower() on the tokens the model uses
LowerTok(t) == CASE t = "H" -> "h"
                 [] t = "A" -> "a"
                 [] t = "G" -> "g"
                 [] t = "Flight" -> "flight"
                 [] t = "Routes" -> "routes"
                 [] OTHER -> t
Lower(s) == [i \in 1..Len(s) |-> LowerTok(s[i])]

\* "_".join(parts)
RECURSIVE JoinUnderscore(_)
JoinUnderscore(parts) ==
    IF Len(parts) = 0 THEN <<>>
    ELSE IF Len(parts) = 1 THEN parts[1]
    ELSE parts[1] \o <<"_">> \o JoinUnderscore(Tail(parts))

\* s.split("_"): the parts between the "_" tokens (always at least one part)
RECURSIVE SplitUnderscore(_)
SplitUnderscore(s) ==
    IF \A i \in 1..Len(s) : s[i] # "_" THEN <<s>>
    ELSE LET k == CHOOSE i \in 1..Len(s) :
                     s[i] = "_" /\ \A j \in 1..(i-1) : s[j] # "_"
         IN <<SubSeq(s, 1, k-1)>> \o SplitUnderscore(SubSeq(s, k+1, Len(s)))

\* faulty variant: the key names the city of arrival only
SegmentKey_ArrivalOnly(from_city, to_city, transport_type) ==
    to_city \o <<"_">> \o transport_type

\* f"{from_city}_{to_city}_{transport_type}"
SegmentKey(from_city, to_city, transport_type) ==
    from_city \o <<"_">> \o to_city \o <<"_">> \o transport_type

FLIGHT == <<"flight">>
TRAIN == <<"train">>


-----------------------------------------------------------------------------
(* route_calculator.py : segment ids, payload parsing, parsed-segment keys *)

\* index of the first element of s satisfying P, 0 when there is none
FirstIndex(P(_), s) ==
    IF \E i \in 1..Len(s) : P(s[i])
    THEN CHOOSE i \in 1..Len(s) : P(s[i]) /\ \A j \in 1..(i-1) : ~P(s[j])
    ELSE 0

\* the hub loop of formats 2 and 3: the listed city equal to hub up to case,
\* else the id's own hub text
MatchHub(hub, hubs) ==
    LET i == FirstIndex(LAMBDA city : city = hub \/ Lower(city) = Lower(hub), hubs)
    IN IF i = 0 THEN hub ELSE hubs[i]

\* c == x or c in x or x in c
LooseMatch(c, x) == c = x \/ Contains(x, c) \/ Contains(c, x)

\* format 4, "{from_city}_{to_city}_{mode}": the first split point whose two
\* sides both match a known city, each side normalised to the first match
GenericFormat(parts, org, dst, hubs) ==
    LET city_parts == SubSeq(parts, 1, Len(parts) - 1)
        all_cities == <<org, dst>> \o hubs
        from_at(i) == JoinUnderscore(SubSeq(city_parts, 1, i))
        to_at(i) == JoinUnderscore(SubSeq(city_parts, i + 1, Len(city_parts)))
        ok(i) == /\ \E k \in 1..Len(all_cities) : LooseMatch(all_cities[k], from_at(i))
                 /\ \E k \in 1..Len(all_cities) : LooseMatch(all_cities[k], to_at(i))
        splits == {i \in 1..(Len(city_parts) - 1) : ok(i)}
    IN IF splits = {} THEN <<<<>>, <<>>>>
       ELSE LET i == CHOOSE x \in splits : \A y \in splits : x <= y
            IN <<all_cities[FirstIndex(LAMBDA c : LooseMatch(c, from_at(i)), all_cities)],
                 all_cities[FirstIndex(LAMBDA c : LooseMatch(c, to_at(i)), all_cities)]>>

\* RouteCalculator._extract_cities_from_segment_id -> <<from_city, to_city>>
extract_cities_from_segment_id(segment_id, org, dst, hubs) ==
    LET parts == SplitUnderscore(segment_id) IN
    IF parts[1] = <<"direct">> THEN <<org, dst>>
    ELSE IF parts[1] = <<"leg1">> /\ Len(parts) >= 3 THEN <<org, MatchHub(parts[2], hubs)>>
    ELSE IF parts[1] = <<"leg2">> /\ Len(parts) >= 3 THEN <<MatchHub(parts[2], hubs), dst>>
    ELSE IF Len(parts) >= 3 /\ parts[Len(parts)] \in {FLIGHT, TRAIN}
         THEN GenericFormat(parts, org, dst, hubs)
    ELSE <<<<>>, <<>>>>

\* A provider payload is modelled by the records the parser decodes from it
\* (number, departure_time, arrival_time, duration_minutes, cross_days, price);
\* a record without a number is dropped (_parse_single_flight / _parse_single_train
\* return None), every other record is stamped with the mode and the two cities.
ParseRecord(rec, mode, departure_city, arrival_city) ==
    [transport_type |-> mode,
     number |-> rec.number,
     departure_time |-> rec.departure_time,
     arrival_time |-> rec.arrival_time,
     duration_minutes |-> rec.duration_minutes,
     cross_days |-> rec.cross_days,
     departure_city |-> departure_city,
     arrival_city |-> arrival_city,
     price |-> rec.price]

parse_flight_data(raw_data, departure_city, arrival_city) ==
    ConcatMap(LAMBDA rec : IF rec.number = "" THEN <<>>
                           ELSE <<ParseRecord(rec, "flight", departure_city, arrival_city)>>,
              raw_data)

parse_train_data(raw_data, departure_city, arrival_city) ==
    ConcatMap(LAMBDA rec : IF rec.number = "" THEN <<>>
                           ELSE <<ParseRecord(rec, "train", departure_city, arrival_city)>>,
              raw_data)

\* dict.get(key, [])
PoolOf(parsed, key) == IF key \in DOMAIN parsed THEN parsed[key] ELSE <<>>

\* one iteration of the loop of _parse_all_segments: the cities, the key and the
\* segments of an entry (no key when a city could not be told)
ParseOneEntry(entry, org, dst, hubs) ==
    LET ft == extract_cities_from_segment_id(entry.segment_id, org, dst, hubs)
        from_city == ft[1]
        to_city == ft[2]
    IN [skipped |-> from_city = <<>> \/ to_city = <<>>,
        key |-> SegmentKey(from_city, to_city, entry.transport_type),
        segments |-> IF entry.transport_type = FLIGHT
                     THEN parse_flight_data(entry.raw_data, from_city, to_city)
                     ELSE parse_train_data(entry.raw_data, from_city, to_city)]

\* RouteCalculator._parse_all_segments: every key holds the segments of its
\* entries, in the order of segment_data (dict insertion order)
parse_all_segments(segdata, org, dst, hubs) ==
    LET one == [i \in 1..Len(segdata) |-> ParseOneEntry(segdata[i], org, dst, hubs)]
        keys == {one[i].key : i \in {j \in 1..Len(segdata) : ~ one[j].skipped}}
    IN [k \in keys |->
           ConcatMap(LAMBDA i : IF ~ one[i].skipped /\ one[i].key = k
                                THEN one[i].segments ELSE <<>>,
                     [i \in 1..Len(segdata) |-> i])]

-----------------------------------------------------------------------------
(* route_calculator.py : datetimes, transfer feasibility, accommodation fee *)

DEFAULT_ACCOMMODATION_FEE == 200
NIGHT_START_HOUR == 22
NIGHT_END_HOUR == 6
LONG_WAIT_THRESHOLD_HOURS == 12
\* range(3) in _check_transfer_feasibility
DAY_OFFSETS == 3
\* faulty variant: four records of every pool are combined
POOL_CAP_Four == 3 + 1
\* segments[:3] in _calculate_three_leg_routes
POOL_CAP == 3

DayMinutes == 24 * 60

\* "HH:MM" that strptime / int() / datetime.replace accept; anything else raises
ValidTime(t) == t >= 0 /\ t < DayMinutes
\* A date is a day number; datetime ends with 9999-12-31, and this is the day
\* number standing for it.
LastDay == 1000

\* "YYYY-MM-DD" that strptime accepts
ValidDate(d) == d >= 0 /\ d <= LastDay

\* faulty variant: the range of datetime ends two days early
DatetimeOverflows_TwoDaysEarly(dt) == dt < 0 \/ dt \div DayMinutes > LastDay - 2

\* datetime + timedelta raises OverflowError when the sum is out of range
DatetimeOverflows(dt) == dt < 0 \/ dt \div DayMinutes > LastDay

\* TransportSegment.get_arrival_datetime raises on a malformed date or time
ArrivalRaises(seg, base_date) ==
    \/ ~ValidDate(base_date) \/ ~ValidTime(seg.arrival_time)
    \/ DatetimeOverflows(base_date * DayMinutes + seg.arrival_time
                            + seg.cross_days * DayMinutes)

\* TransportSegment.get_arrival_datetime
get_arrival_datetime(seg, base_date) ==
    base_date * DayMinutes + seg.arrival_time + seg.cross_days * DayMinutes

\* datetime.hour
HourOf(dt) == (dt % DayMinutes) \div 60

\* faulty variant: the minimum transfer time is not added
EarliestDeparture_NoMinimum(arr_dt, min_transfer_hours) == arr_dt

\* earliest_dep = arr_dt + timedelta(minutes=min_transfer_hours * 60)
EarliestDeparture(arr_dt, min_transfer_hours) == arr_dt + min_transfer_hours * 60

\* faulty variant: a wait of up to two days is accepted
WaitAcceptable_TwoDays(wait_minutes) == wait_minutes <= 48 * 60

\* the wait of at most 24 hours that _check_transfer_feasibility accepts
WaitAcceptable(wait_minutes) == wait_minutes <= 24 * 60

\* RouteCalculator._check_transfer_feasibility -> (feasible, wait_minutes, reason)
check_transfer_feasibility(seg1, seg2, base_date, min_transfer_hours) ==
    IF \/ ArrivalRaises(seg1, base_date)
       \/ DatetimeOverflows(EarliestDeparture(get_arrival_datetime(seg1, base_date),
                                              min_transfer_hours))
       \/ ~ValidTime(seg2.departure_time)
    THEN [feasible |-> FALSE, wait_minutes |-> 0, reason |-> "error"]
    ELSE
      LET arr_dt == get_arrival_datetime(seg1, base_date)
          earliest_dep == EarliestDeparture(arr_dt, min_transfer_hours)
          dep_dt(day_offset) == (arr_dt \div DayMinutes) * DayMinutes
                                + seg2.departure_time + day_offset * DayMinutes
          \* the loop ends at the first offset whose dep_dt is out of range (the
          \* addition raises) or late enough
          hits == {o \in 0..(DAY_OFFSETS - 1) :
                      DatetimeOverflows(dep_dt(o)) \/ dep_dt(o) >= earliest_dep}
      IN IF hits = {}
         THEN [feasible |-> FALSE, wait_minutes |-> 0, reason |-> "none"]
         ELSE LET o == CHOOSE x \in hits : \A y \in hits : x <= y
                  wait_minutes == dep_dt(o) - arr_dt
              IN IF DatetimeOverflows(dep_dt(o))
                 THEN [feasible |-> FALSE, wait_minutes |-> 0, reason |-> "error"]
                 ELSE IF WaitAcceptable(wait_minutes)
                 THEN [feasible |-> TRUE, wait_minutes |-> wait_minutes, reason |-> ""]
                 ELSE [feasible |-> FALSE, wait_minutes |-> wait_minutes,
                       reason |-> "too_long"]

\* RouteCalculator._get_arrival_date
get_arrival_date(seg1, seg2, base_date, wait_minutes) ==
    IF ArrivalRaises(seg1, base_date) THEN base_date
    ELSE (get_arrival_datetime(seg1, base_date) + wait_minutes) \div DayMinutes

\* the hour-stepping loop: some sampled instant arr_dt + i h before dep_dt is at night
NightSampled(arr_dt, wait_minutes) ==
    \E i \in 0..(wait_minutes \div 60) :
        /\ 60 * i < wait_minutes
        /\ (HourOf(arr_dt + 60 * i) >= NIGHT_START_HOUR
            \/ HourOf(arr_dt + 60 * i) < NIGHT_END_HOUR)

\* RouteCalculator._calculate_accommodation_fee
calculate_accommodation_fee(seg1, seg2, base_date, wait_minutes, threshold_hours) ==
    IF wait_minutes < threshold_hours * 60
       /\ wait_minutes < LONG_WAIT_THRESHOLD_HOURS * 60 THEN 0
    ELSE IF ArrivalRaises(seg1, base_date) THEN 0
    ELSE IF NightSampled(get_arrival_datetime(seg1, base_date), wait_minutes)
         THEN DEFAULT_ACCOMMODATION_FEE
    ELSE IF wait_minutes >= LONG_WAIT_THRESHOLD_HOURS * 60
         THEN DEFAULT_ACCOMMODATION_FEE
    ELSE 0

-----------------------------------------------------------------------------
(* route_calculator.py : enumeration of direct, two-leg and three-leg plans *)

MODES == <<FLIGHT, TRAIN>>

\* RouteCalculator._calculate_direct_routes
calculate_direct_routes(parsed, org, dst, dt) ==
    ConcatMap(LAMBDA transport_type :
        ConcatMap(LAMBDA seg :
            IF seg.price <= 0 THEN <<>>
            ELSE <<[segments |-> <<seg>>,
                    transfer_cities |-> <<>>,
                    min_transfer_hours |-> 0,
                    total_price |-> seg.price,
                    total_duration_minutes |-> seg.duration_minutes,
                    accommodation_fee |-> 0,
                    transfer_wait_minutes |-> <<>>,
                    route_type |-> <<transport_type, <<"direct">>>>,
                    feasible |-> TRUE,
                    infeasible_reason |-> ""]>>,
            PoolOf(parsed, SegmentKey(org, dst, transport_type))),
        MODES)

\* faulty variant: the accommodation fee is left out of the total
TotalPrice_NoFee(segment_prices, accommodation) == segment_prices

\* total_price = seg1.price + seg2.price (+ seg3.price) + accommodation
TotalPrice(segment_prices, accommodation) == segment_prices + accommodation

\* the RoutePlan built in the innermost loop of _calculate_two_leg_routes
TwoLegPlan(seg1, seg2, hub, type1, type2, dt, min_transfer_hours, thr, enabled) ==
    LET chk == check_transfer_feasibility(seg1, seg2, dt, min_transfer_hours)
        accommodation ==
            IF chk.feasible /\ enabled
            THEN calculate_accommodation_fee(seg1, seg2, dt, chk.wait_minutes, thr)
            ELSE 0
    IN [segments |-> <<seg1, seg2>>,
        transfer_cities |-> <<hub>>,
        min_transfer_hours |-> min_transfer_hours,
        total_price |-> TotalPrice(seg1.price + seg2.price, accommodation),
        total_duration_minutes |->
            seg1.duration_minutes + chk.wait_minutes + seg2.duration_minutes,
        accommodation_fee |-> accommodation,
        transfer_wait_minutes |-> <<chk.wait_minutes>>,
        route_type |-> <<type1, type2>>,
        feasible |-> chk.feasible,
        infeasible_reason |-> chk.reason]

\* transport_combos of _calculate_two_leg_routes, in source order
TwoLegCombos == <<<<FLIGHT, FLIGHT>>, <<FLIGHT, TRAIN>>, <<TRAIN, FLIGHT>>, <<TRAIN, TRAIN>>>>

\* RouteCalculator._calculate_two_leg_routes
calculate_two_leg_routes(parsed, org, dst, hubs, dt, min_transfer_hours, thr, enabled) ==
    ConcatMap(LAMBDA hub :
      ConcatMap(LAMBDA combo :
        ConcatMap(LAMBDA seg1 :
          IF seg1.price <= 0 THEN <<>>
          ELSE ConcatMap(LAMBDA seg2 :
                 IF seg2.price <= 0 THEN <<>>
                 ELSE <<TwoLegPlan(seg1, seg2, hub, combo[1], combo[2], dt,
                                   min_transfer_hours, thr, enabled)>>,
                 PoolOf(parsed, SegmentKey(hub, dst, combo[2]))),
          PoolOf(parsed, SegmentKey(org, hub, combo[1]))),
        TwoLegCombos),
      hubs)

\* the RoutePlan built in the innermost loop of _calculate_three_leg_routes
\* (reached only when the first transfer chk1 is feasible)
ThreeLegPlan(seg1, seg2, seg3, hub1, hub2, types, dt, min_transfer_hours, thr, enabled, chk1) ==
    LET wait1 == chk1.wait_minutes
        seg2_date == get_arrival_date(seg1, seg2, dt, wait1)
        chk2 == check_transfer_feasibility(seg2, seg3, seg2_date, min_transfer_hours)
        wait2 == chk2.wait_minutes
        feasible == chk1.feasible /\ chk2.feasible
        accommodation ==
            IF feasible /\ enabled
            THEN calculate_accommodation_fee(seg1, seg2, dt, wait1, thr)
                 + calculate_accommodation_fee(seg2, seg3, seg2_date, wait2, thr)
            ELSE 0
    IN [segments |-> <<seg1, seg2, seg3>>,
        transfer_cities |-> <<hub1, hub2>>,
        min_transfer_hours |-> min_transfer_hours,
        total_price |-> TotalPrice(seg1.price + seg2.price + seg3.price, accommodation),
        total_duration_minutes |->
            seg1.duration_minutes + wait1 + seg2.duration_minutes + wait2
            + seg3.duration_minutes,
        accommodation_fee |-> accommodation,
        transfer_wait_minutes |-> <<wait1, wait2>>,
        route_type |-> types,
        feasible |-> feasible,
        infeasible_reason |-> IF chk1.reason # "" THEN chk1.reason ELSE chk2.reason]

\* combos of _calculate_three_leg_routes, in source order
ThreeLegCombos ==
    ConcatMap(LAMBDA t1 : ConcatMap(LAMBDA t2 : ConcatMap(LAMBDA t3 : <<<<t1, t2, t3>>>>,
                                                          MODES), MODES), MODES)

\* the body of the loop over combos for one ordered hub pair
ThreeLegForPair(parsed, org, dst, hub1, hub2, dt, min_transfer_hours, thr, enabled) ==
    ConcatMap(LAMBDA types :
      ConcatMap(LAMBDA seg1 :
        IF seg1.price <= 0 THEN <<>>
        ELSE ConcatMap(LAMBDA seg2 :
          IF seg2.price <= 0 THEN <<>>
          ELSE LET chk1 == check_transfer_feasibility(seg1, seg2, dt, min_transfer_hours)
               IN IF ~chk1.feasible THEN <<>>
                  ELSE ConcatMap(LAMBDA seg3 :
                         IF seg3.price <= 0 THEN <<>>
                         ELSE <<ThreeLegPlan(seg1, seg2, seg3, hub1, hub2, types, dt,
                                             min_transfer_hours, thr, enabled, chk1)>>,
                         Take(PoolOf(parsed, SegmentKey(hub2, dst, types[3])), POOL_CAP)),
          Take(PoolOf(parsed, SegmentKey(hub1, hub2, types[2])), POOL_CAP)),
        Take(PoolOf(parsed, SegmentKey(org, hub1, types[1])), POOL_CAP)),
      ThreeLegCombos)

\* RouteCalculator._calculate_three_leg_routes
calculate_three_leg_routes(parsed, org, dst, hubs, dt, min_transfer_hours, thr, enabled) ==
    IF Len(hubs) < 2 THEN <<>>
    ELSE ConcatMap(LAMBDA hub1 :
           ConcatMap(LAMBDA hub2 :
             IF hub1 = hub2 THEN <<>>
             ELSE ThreeLegForPair(parsed, org, dst, hub1, hub2, dt,
                                  min_transfer_hours, thr, enabled),
             hubs),
           hubs)

\* faulty variant: the sort key is the price alone
SortKeyLeq_PriceOnly(r1, r2) == r1.total_price <= r2.total_price

\* the sort key of calculate_all_routes, compared as Python compares tuples
SortKeyLeq(r1, r2) ==
    \/ r1.total_price < r2.total_price
    \/ /\ r1.total_price = r2.total_price
       /\ r1.total_duration_minutes <= r2.total_duration_minutes

\* list.sort(key=...): stable, so a plan comes after the earlier plans whose key
\* is not greater and after the later plans whose key is smaller
SortRoutes(routes) ==
    LET n == Len(routes)
        rank(i) == 1 + Cardinality({j \in 1..n :
                            \/ j < i /\ SortKeyLeq(routes[j], routes[i])
                            \/ j > i /\ ~ SortKeyLeq(routes[i], routes[j])})
    IN [p \in 1..n |-> routes[CHOOSE i \in 1..n : rank(i) = p]]

\* faulty variant: step 5 does not filter
FilterFeasible_KeepAll(routes) == routes

\* [r for r in all_routes if r.feasible]
FilterFeasible(routes) == SelectSeq(routes, LAMBDA r : r.feasible)

\* the list all_routes of calculate_all_routes before step 5
EnumerateAllRoutes(org, dst, dt, segdata, hubs, thr, enabled) ==
    LET parsed == parse_all_segments(segdata, org, dst, hubs)
    IN calculate_direct_routes(parsed, org, dst, dt)
       \o calculate_two_leg_routes(parsed, org, dst, hubs, dt, 2, thr, enabled)
       \o calculate_two_leg_routes(parsed, org, dst, hubs, dt, 3, thr, enabled)
       \o calculate_three_leg_routes(parsed, org, dst, hubs, dt, 2, thr, enabled)
       \o calculate_three_leg_routes(parsed, org, dst, hubs, dt, 3, thr, enabled)

\* step 5 of calculate_all_routes: filter, then sort
RankRoutes(routes) == SortRoutes(FilterFeasible(routes))

-----------------------------------------------------------------------------
(* Inputs of calculate_all_routes explored by the model *)

\* grid of the times of day swept by the transfer cases, in minutes
TimeStep == 15
\* the day number standing for the query date
BaseDay == 100

TimeGrid == {t \in 0..(DayMinutes - 1) : t % TimeStep = 0}

cO == <<"O">>
cD == <<"D">>
cH == <<"H">>
cG == <<"G">>

Rec(number, dep, arr, dur, cross, price) ==
    [number |-> number, departure_time |-> dep, arrival_time |-> arr,
     duration_minutes |-> dur, cross_days |-> cross, price |-> price]

\* 08:00-10:00, 14:00-16:00, 23:00-01:00(+1), a record without price, one without
\* number, one with an unparseable departure time, 06:00-09:00 at the price of the first
RecA == Rec("N1", 8 * 60, 10 * 60, 120, 0, 500)
RecB == Rec("N2", 14 * 60, 16 * 60, 120, 0, 300)
RecC == Rec("N3", 23 * 60, 1 * 60, 120, 1, 300)
RecD == Rec("N4", 8 * 60, 10 * 60, 90, 0, 0)
RecE == Rec("", 8 * 60, 10 * 60, 90, 0, 400)
RecF == Rec("N6", 0 - 1, 10 * 60, 90, 0, 400)
RecG == Rec("N7", 6 * 60, 9 * 60, 180, 0, 500)
RecH == Rec("N8", 23 * 60 + 30, 0 * 60 + 30, 60, 1, 250)

Pay0 == <<>>
Pay1 == <<RecA>>
Pay2 == <<RecB, RecC>>
Pay3 == <<RecD, RecE, RecF, RecG>>
Pay4 == <<RecA, RecB, RecH, RecG>>

Entry(segment_id, transport_type, raw_data) ==
    [segment_id |-> segment_id, transport_type |-> transport_type, raw_data |-> raw_data]

IdDirect(mode) == <<"direct", "_">> \o mode
IdLeg1(hub, mode) == <<"leg1", "_">> \o hub \o <<"_">> \o mode
IdLeg2(hub, mode) == <<"leg2", "_">> \o hub \o <<"_">> \o mode

\* every time of arrival at the hub against every time of departure from it
InitSweep ==
    /\ origin = cO /\ destination = cD /\ hub_cities = <<cH>>
    /\ date = BaseDay
    /\ accommodation_threshold_hours = 6
    /\ accommodation_enabled = TRUE
    /\ \E a \in TimeGrid, d \in TimeGrid, c \in {0, 1} :
          segment_data =
            << Entry(IdLeg1(cH, FLIGHT), FLIGHT, <<Rec("F1", 9 * 60, a, 150, c, 2100)>>),
               Entry(IdLeg2(cH, TRAIN), TRAIN, <<Rec("K1", d, 20 * 60, 200, 0, 180)>>) >>

\* two hubs, all three families of plans, pools longer than the three-leg cap
InitTwoHubs ==
    /\ origin = cO /\ destination = cD /\ hub_cities = <<cH, cG>>
    /\ date = BaseDay
    /\ accommodation_threshold_hours \in {6, 13}
    /\ accommodation_enabled \in BOOLEAN
    /\ \E p1 \in {Pay0, Pay1}, p2 \in {Pay1, Pay2, Pay4}, p3 \in {Pay0, Pay2, Pay3},
          p4 \in {Pay0, Pay1}, p5 \in {Pay1, Pay3, Pay4}, p6 \in {Pay0, Pay2, Pay4} :
          segment_data =
            << Entry(IdDirect(FLIGHT), FLIGHT, p1),
               Entry(IdLeg1(cH, FLIGHT), FLIGHT, p2),
               Entry(IdLeg2(cH, TRAIN), TRAIN, p3),
               Entry(IdLeg1(cG, TRAIN), TRAIN, p4),
               Entry(IdLeg2(cG, FLIGHT), FLIGHT, p5),
               Entry(cH \o <<"_">> \o cG \o <<"_">> \o FLIGHT, FLIGHT, p6) >>

\* city names that hold "_" (format 4 of _extract_cities_from_segment_id allows them),
\* a hub written in another case in the id, a hub list naming the destination,
\* an unparseable date
InitNames ==
    /\ accommodation_threshold_hours = 6
    /\ accommodation_enabled = TRUE
    /\ \E p1 \in {Pay1, Pay2, Pay4}, p2 \in {Pay1, Pay2, Pay3} :
          \/ /\ origin = <<"A", "_", "B">> /\ destination = <<"B", "_", "C">>
             /\ hub_cities = <<<<"C">>>>
             /\ date = BaseDay
             /\ segment_data = << Entry(IdLeg2(<<"A">>, FLIGHT), FLIGHT, p1),
                                  Entry(IdLeg2(<<"C">>, FLIGHT), FLIGHT, p2) >>
          \/ /\ origin = cO /\ destination = cD
             /\ hub_cities = <<cH>>
             /\ date \in {BaseDay, 0 - 1}
             /\ segment_data = << Entry(IdLeg1(<<"h">>, FLIGHT), FLIGHT, p1),
                                  Entry(IdLeg2(cH, TRAIN), TRAIN, p2) >>
          \/ /\ origin = cO /\ destination = cD
             /\ hub_cities = <<cD, cH>>
             /\ date = BaseDay
             /\ segment_data = << Entry(IdLeg1(cD, FLIGHT), FLIGHT, p1),
                                  Entry(IdLeg2(cD, FLIGHT), FLIGHT, p2),
                                  Entry(IdDirect(FLIGHT), FLIGHT, p2) >>

\* three pools of four priced records each, every pair of consecutive legs
\* connecting the same day; the hub list of the second case names a city twice
PoolMorning == <<Rec("A1", 6 * 60, 7 * 60, 60, 0, 100), Rec("A2", 6 * 60, 7 * 60, 60, 0, 110),
                 Rec("A3", 6 * 60, 7 * 60, 60, 0, 120), Rec("A4", 6 * 60, 7 * 60, 60, 0, 130)>>
PoolNoon == <<Rec("B1", 12 * 60, 13 * 60, 60, 0, 100), Rec("B2", 12 * 60, 13 * 60, 60, 0, 110),
              Rec("B3", 12 * 60, 13 * 60, 60, 0, 120), Rec("B4", 12 * 60, 13 * 60, 60, 0, 130)>>
PoolEvening == <<Rec("C1", 18 * 60, 19 * 60, 60, 0, 100), Rec("C2", 18 * 60, 19 * 60, 60, 0, 110),
                 Rec("C3", 18 * 60, 19 * 60, 60, 0, 120), Rec("C4", 18 * 60, 19 * 60, 60, 0, 130)>>

InitThreeLegPools ==
    /\ origin = cO /\ destination = cD
    /\ hub_cities \in {<<cH, cG>>, <<cH, cG, cH>>}
    /\ date = BaseDay
    /\ accommodation_threshold_hours = 6
    /\ accommodation_enabled = TRUE
    /\ segment_data =
         << Entry(IdLeg1(cH, FLIGHT), FLIGHT, PoolMorning),
            Entry(cH \o <<"_">> \o cG \o <<"_">> \o FLIGHT, FLIGHT, PoolNoon),
            Entry(IdLeg2(cG, FLIGHT), FLIGHT, PoolEvening) >>

PlanIdle ==
    /\ include_direct = FALSE /\ transport_filter = "all"
    /\ queries = <<>> /\ plan_pc = "idle"

\* providers that may answer a request with any reply
AnyReply == [fixed |-> FALSE, reply |-> EmptyMap]

\* no run of execute_parallel_queries in progress, a fresh engine
ExecIdle ==
    /\ flight_running = TRUE /\ train_running = TRUE
    /\ segment_results = EmptyMap /\ station_cache = EmptyMap /\ station_cache_lock = 0
    /\ max_workers = 15 /\ exec_pc = "idle" /\ completed = 0
    /\ workers = EmptyMap /\ flight_idx = 1 /\ flight_pc = "next"
    /\ retry_count = 0 /\ flight_history = <<>> /\ flight_result = EmptyMap
    /\ progress_calls = <<>> /\ returned_map = EmptyMap
    /\ results_before_run = EmptyMap
    /\ station_calls = EmptyMap
    /\ results_order = <<>>
    /\ provider = AnyReply
    /\ run_no = 1 /\ first_plans = <<>> /\ cancel_signalled = FALSE
    /\ StandaloneIdle
    /\ HubsIdle

InitRoute ==
    /\ (InitSweep \/ InitTwoHubs \/ InitNames \/ InitThreeLegPools)
    /\ all_routes = <<>> /\ feasible_routes = <<>> /\ calc_pc = "ready"
    /\ PlanIdle
    /\ ExecIdle

\* RouteCalculator.calculate_all_routes, the whole call
CalculateAllRoutes ==
    /\ calc_pc = "ready"
    /\ all_routes' = EnumerateAllRoutes(origin, destination, date, segment_data,
                                        hub_cities, accommodation_threshold_hours,
                                        accommodation_enabled)
    /\ feasible_routes' = RankRoutes(all_routes')
    /\ calc_pc' = "done"
    /\ UNCHANGED <<origin, destination, date, segment_data, hub_cities,
                   accommodation_threshold_hours, accommodation_enabled>>
    /\ UNCHANGED planVars
    /\ UNCHANGED execVars

vars == <<routeVars, planVars, execVars>>

NextRoute == CalculateAllRoutes

SpecRoute == InitRoute /\ [][NextRoute]_vars

-----------------------------------------------------------------------------
(* Claims on calculate_all_routes, checked under SpecRoute *)

Returned == {feasible_routes[i] : i \in 1..Len(feasible_routes)}
Enumerated == {all_routes[i] : i \in 1..Len(all_routes)}

SumPrices(segs) ==
    LET f[i \in 0..Len(segs)] == IF i = 0 THEN 0 ELSE f[i-1] + segs[i].price
    IN f[Len(segs)]

\* the base date the enumerator uses for the check of transfer i of a plan
TransferBaseDate(r, i) ==
    IF i = 1 THEN date
    ELSE get_arrival_date(r.segments[1], r.segments[2], date, r.transfer_wait_minutes[1])

\* C1: every plan of the returned list has feasible = true, and the transfer check
\* of each of its transfers, run again on its segments, succeeds: a combination whose
\* transfer check fails is not in the returned list.
C1_OnlyFeasibleReturned ==
    calc_pc = "done" =>
        \A r \in Returned :
            /\ r.feasible
            /\ \A i \in 1..(Len(r.segments) - 1) :
                   check_transfer_feasibility(r.segments[i], r.segments[i+1],
                       TransferBaseDate(r, i), r.min_transfer_hours).feasible

\* C1 witness: the enumeration built an infeasible plan and the call returned plans
C1_Witness ==
    /\ calc_pc = "done"
    /\ \E r \in Enumerated : ~r.feasible /\ Len(r.segments) = 2
    /\ \E r \in Enumerated : ~r.feasible /\ Len(r.segments) = 3
    /\ Len(feasible_routes) > 0

\* C2: for every returned plan, total_price is the sum of the prices of its segments
\* plus its accommodation_fee.
C2_TotalPriceEquation ==
    calc_pc = "done" =>
        \A r \in Returned : r.total_price = SumPrices(r.segments) + r.accommodation_fee

\* C2 witness: direct, two-leg and three-leg plans are returned, some with a fee
C2_Witness ==
    /\ calc_pc = "done"
    /\ \E r \in Returned : Len(r.segments) = 1
    /\ \E r \in Returned : Len(r.segments) = 2 /\ r.accommodation_fee > 0
    /\ \E r \in Returned : Len(r.segments) = 3 /\ r.accommodation_fee > 0

\* C3: for every returned two-leg plan with min_transfer_hours = k, k in {2, 3},
\* the wait at the hub is at least k*60 and at most 24*60 minutes.
C3_TwoLegWaitBounds ==
    calc_pc = "done" =>
        \A r \in Returned :
            Len(r.segments) = 2 =>
                /\ r.min_transfer_hours \in {2, 3}
                /\ r.transfer_wait_minutes[1] >= r.min_transfer_hours * 60
                /\ r.transfer_wait_minutes[1] <= 24 * 60

\* C3 witness: a 3 h plan waiting exactly 3 h is returned while the same pair is
\* also returned for 2 h
C3_Witness ==
    /\ calc_pc = "done"
    /\ \E r \in Returned : /\ Len(r.segments) = 2 /\ r.min_transfer_hours = 3
                           /\ r.transfer_wait_minutes[1] = 3 * 60
    /\ \E r \in Returned : /\ Len(r.segments) = 2 /\ r.min_transfer_hours = 2

\* the wait [arrival, arrival + wait) meets a night window [22:00, 06:00)
IntervalMeetsNight(arrival_time, wait_minutes) ==
    /\ wait_minutes > 0
    /\ \E n \in (0 - 1)..1 :
          /\ arrival_time < ((n + 1) * 24 + NIGHT_END_HOUR) * 60
          /\ (n * 24 + NIGHT_START_HOUR) * 60 < arrival_time + wait_minutes

\* C4 (as claimed): with accommodation enabled, a returned plan carries a fee exactly
\* when one of its waits is >= 12 h, or is >= the threshold and its interval meets the
\* night window.
C4_FeeIffNightOverlap ==
    (calc_pc = "done" /\ accommodation_enabled) =>
        \A r \in Returned :
            (r.accommodation_fee > 0) <=>
                \E i \in 1..(Len(r.segments) - 1) :
                    LET w == r.transfer_wait_minutes[i] IN
                    \/ w >= LONG_WAIT_THRESHOLD_HOURS * 60
                    \/ /\ w >= accommodation_threshold_hours * 60
                       /\ IntervalMeetsNight(r.segments[i].arrival_time, w)

\* C5: the returned list is sorted by (total_price, total_duration_minutes), both
\* ascending: no adjacent pair is inverted.
C5_SortedByPriceThenDuration ==
    calc_pc = "done" =>
        \A i \in 1..(Len(feasible_routes) - 1) :
            LET a == feasible_routes[i]
                b == feasible_routes[i+1]
            IN \/ a.total_price < b.total_price
               \/ /\ a.total_price = b.total_price
                  /\ a.total_duration_minutes <= b.total_duration_minutes

\* C5 witness: a returned list where the price rises somewhere and where a tie on the
\* price is ordered by a strictly longer duration, enumerated in another order
C5_Witness ==
    /\ calc_pc = "done"
    /\ feasible_routes # FilterFeasible(all_routes)
    /\ \E i \in 1..(Len(feasible_routes) - 1) :
          feasible_routes[i].total_price < feasible_routes[i+1].total_price
    /\ \E i \in 1..(Len(feasible_routes) - 1) :
          /\ feasible_routes[i].total_price = feasible_routes[i+1].total_price
          /\ feasible_routes[i].total_duration_minutes
                < feasible_routes[i+1].total_duration_minutes

\* C6 (as claimed): a returned plan has n in {1,2,3} segments, n-1 transfer cities and
\* n-1 waits, and at transfer i segment i arrives at, and segment i+1 leaves from,
\* transfer_cities[i].
C6_PlanShapeAndAdjacency ==
    calc_pc = "done" =>
        \A r \in Returned :
            LET n == Len(r.segments) IN
            /\ n \in {1, 2, 3}
            /\ Len(r.transfer_cities) = n - 1
            /\ Len(r.transfer_wait_minutes) = n - 1
            /\ \A i \in 1..(n - 1) :
                  /\ r.segments[i].arrival_city = r.transfer_cities[i]
                  /\ r.segments[i+1].departure_city = r.transfer_cities[i]

-----------------------------------------------------------------------------
(* segment_query.py : the query planner, build_segment_queries *)

\* City names are sequences of characters; a character is written as the token
\* "U" followed by its code point, so that substring tests are character-exact.
INTERNATIONAL_CITIES ==
    {
     \* South-East Asia
     <<"U66FC","U8C37">>, <<"U65B0","U52A0","U5761">>, <<"U5409","U9686","U5761">>,
     <<"U96C5","U52A0","U8FBE">>, <<"U9A6C","U5C3C","U62C9">>, <<"U6CB3","U5185">>,
     <<"U80E1","U5FD7","U660E","U5E02">>, <<"U91D1","U8FB9">>, <<"U4E07","U8C61">>,
     <<"U4EF0","U5149">>, <<"U6E05","U8FC8">>, <<"U666E","U5409","U5C9B">>,
     <<"U82AD","U63D0","U96C5">>, <<"U82CF","U6885","U5C9B">>, <<"U5DF4","U5398","U5C9B">>,
     <<"U5C98","U6E2F">>, <<"U82BD","U5E84">>, <<"U66B9","U7C92">>,
     <<"U69DF","U57CE">>, <<"U5170","U5361","U5A01">>, <<"U6C99","U5DF4">>,
     <<"U6587","U83B1">>,
     \* East Asia
     <<"U4E1C","U4EAC">>, <<"U5927","U962A">>, <<"U540D","U53E4","U5C4B">>,
     <<"U798F","U5188">>, <<"U672D","U5E4C">>, <<"U51B2","U7EF3">>,
     <<"U9996","U5C14">>, <<"U91DC","U5C71">>, <<"U6D4E","U5DDE","U5C9B">>,
     <<"U4E4C","U5170","U5DF4","U6258">>,
     \* South Asia
     <<"U65B0","U5FB7","U91CC">>, <<"U5B5F","U4E70">>, <<"U73ED","U52A0","U7F57","U5C14">>,
     <<"U52A0","U5C14","U5404","U7B54">>, <<"U91D1","U5948">>, <<"U79D1","U4F26","U5761">>,
     <<"U9A6C","U5C14","U4EE3","U592B">>, <<"U52A0","U5FB7","U6EE1","U90FD">>, <<"U8FBE","U5361">>,
     <<"U5361","U62C9","U5947">>, <<"U4F0A","U65AF","U5170","U5821">>,
     \* Middle East
     <<"U8FEA","U62DC">>, <<"U963F","U5E03","U624E","U6BD4">>, <<"U591A","U54C8">>,
     <<"U5229","U96C5","U5F97">>, <<"U5409","U8FBE">>, <<"U79D1","U5A01","U7279">>,
     <<"U5DF4","U6797">>, <<"U9A6C","U65AF","U5580","U7279">>, <<"U7279","U62C9","U7EF4","U592B">>,
     <<"U5B89","U66FC">>, <<"U8D1D","U9C81","U7279">>, <<"U4F0A","U65AF","U5766","U5E03","U5C14">>,
     <<"U5B89","U5361","U62C9">>, <<"U5FB7","U9ED1","U5170">>,
     \* Europe
     <<"U4F26","U6566">>, <<"U5DF4","U9ECE">>, <<"U6CD5","U5170","U514B","U798F">>,
     <<"U963F","U59C6","U65AF","U7279","U4E39">>, <<"U6155","U5C3C","U9ED1">>, <<"U82CF","U9ECE","U4E16">>,
     <<"U7F57","U9A6C">>, <<"U7C73","U5170">>, <<"U9A6C","U5FB7","U91CC">>,
     <<"U5DF4","U585E","U7F57","U90A3">>, <<"U7EF4","U4E5F","U7EB3">>, <<"U5E03","U9C81","U585E","U5C14">>,
     <<"U65E5","U5185","U74E6">>, <<"U83AB","U65AF","U79D1">>, <<"U5723","U5F7C","U5F97","U5821">>,
     <<"U8D6B","U5C14","U8F9B","U57FA">>, <<"U65AF","U5FB7","U54E5","U5C14","U6469">>, <<"U54E5","U672C","U54C8","U6839">>,
     <<"U5965","U65AF","U9646">>, <<"U534E","U6C99">>, <<"U5E03","U62C9","U683C">>,
     <<"U5E03","U8FBE","U4F69","U65AF">>, <<"U96C5","U5178">>, <<"U91CC","U65AF","U672C">>,
     <<"U90FD","U67CF","U6797">>, <<"U7231","U4E01","U5821">>, <<"U66FC","U5F7B","U65AF","U7279">>,
     \* North America
     <<"U7EBD","U7EA6">>, <<"U6D1B","U6749","U77F6">>, <<"U65E7","U91D1","U5C71">>,
     <<"U829D","U52A0","U54E5">>, <<"U897F","U96C5","U56FE">>, <<"U6CE2","U58EB","U987F">>,
     <<"U534E","U76DB","U987F">>, <<"U8FBE","U62C9","U65AF">>, <<"U4F11","U65AF","U987F">>,
     <<"U4E9A","U7279","U5170","U5927">>, <<"U8FC8","U963F","U5BC6">>, <<"U62C9","U65AF","U7EF4","U52A0","U65AF">>,
     <<"U6A80","U9999","U5C71">>, <<"U4E39","U4F5B">>, <<"U51E4","U51F0","U57CE">>,
     <<"U5E95","U7279","U5F8B">>, <<"U8D39","U57CE">>, <<"U660E","U5C3C","U963F","U6CE2","U5229","U65AF">>,
     <<"U6E29","U54E5","U534E">>, <<"U591A","U4F26","U591A">>, <<"U8499","U7279","U5229","U5C14">>,
     <<"U5361","U5C14","U52A0","U91CC">>, <<"U6E25","U592A","U534E">>,
     \* Central and South America
     <<"U58A8","U897F","U54E5","U57CE">>, <<"U574E","U6606">>, <<"U5723","U4FDD","U7F57">>,
     <<"U91CC","U7EA6","U70ED","U5185","U5362">>, <<"U5E03","U5B9C","U8BFA","U65AF","U827E","U5229","U65AF">>, <<"U5723","U5730","U4E9A","U54E5">>,
     <<"U5229","U9A6C">>, <<"U6CE2","U54E5","U5927">>, <<"U5DF4","U62FF","U9A6C","U57CE">>,
     <<"U54C8","U74E6","U90A3">>,
     \* Oceania
     <<"U6089","U5C3C">>, <<"U58A8","U5C14","U672C">>, <<"U5E03","U91CC","U65AF","U73ED">>,
     <<"U73C0","U65AF">>, <<"U963F","U5FB7","U83B1","U5FB7">>, <<"U5965","U514B","U5170">>,
     <<"U60E0","U7075","U987F">>, <<"U57FA","U7763","U57CE">>, <<"U6590","U6D4E">>,
     <<"U5173","U5C9B">>, <<"U585E","U73ED","U5C9B">>, <<"U5E15","U52B3">>,
     \* Africa
     <<"U5F00","U7F57">>, <<"U7EA6","U7FF0","U5185","U65AF","U5821">>, <<"U5F00","U666E","U6566">>,
     <<"U5185","U7F57","U6BD5">>, <<"U5361","U8428","U5E03","U5170","U5361">>, <<"U62C9","U5404","U65AF">>,
     <<"U4E9A","U7684","U65AF","U4E9A","U8D1D","U5DF4">>, <<"U6BDB","U91CC","U6C42","U65AF">>, <<"U585E","U820C","U5C14">> }

\* exact match first, then containment in either direction
is_international_city(city) ==
    \/ city \in INTERNATIONAL_CITIES
    \/ \E intl_city \in INTERNATIONAL_CITIES :
          Contains(city, intl_city) \/ Contains(intl_city, city)

\* faulty variant: only the departure city is tested
TrainAllowed_FromOnly(from_city, to_city) == ~ is_international_city(from_city)

\* "not from_is_intl and not to_is_intl"
TrainAllowed(from_city, to_city) ==
    ~ is_international_city(from_city) /\ ~ is_international_city(to_city)

get_available_modes(from_city, to_city, filter) ==
    (IF filter \in {"all", "flight"} THEN <<FLIGHT>> ELSE <<>>)
    \o (IF filter \in {"all", "train"} /\ TrainAllowed(from_city, to_city)
        THEN <<TRAIN>> ELSE <<>>)

SegmentQuery(from_city, to_city, dt, mode, segment_id) ==
    [from_city |-> from_city, to_city |-> to_city, date |-> dt,
     mode |-> mode, segment_id |-> segment_id]

\* step 1: the direct queries
DirectQueries(org, dst, dt, incl, filter) ==
    IF incl
    THEN LET modes == get_available_modes(org, dst, filter)
         IN  [i \in 1..Len(modes) |->
                 SegmentQuery(org, dst, dt, modes[i], IdDirect(modes[i]))]
    ELSE <<>>

\* step 2, one hub: first leg origin -> hub, then second leg hub -> destination
HubQueries(org, dst, dt, hub, filter) ==
    IF hub = org \/ hub = dst THEN <<>>
    ELSE LET leg1_modes == get_available_modes(org, hub, filter)
             leg2_modes == get_available_modes(hub, dst, filter)
         IN  [i \in 1..Len(leg1_modes) |->
                 SegmentQuery(org, hub, dt, leg1_modes[i], IdLeg1(hub, leg1_modes[i]))]
             \o
             [i \in 1..Len(leg2_modes) |->
                 SegmentQuery(hub, dst, dt, leg2_modes[i], IdLeg2(hub, leg2_modes[i]))]

RECURSIVE AllHubQueries(_, _, _, _, _)
AllHubQueries(org, dst, dt, hubs, filter) ==
    IF hubs = <<>> THEN <<>>
    ELSE HubQueries(org, dst, dt, Head(hubs), filter)
         \o AllHubQueries(org, dst, dt, Tail(hubs), filter)

build_segment_queries(org, dst, dt, hubs, incl, filter) ==
    DirectQueries(org, dst, dt, incl, filter)
    \o AllHubQueries(org, dst, dt, hubs, filter)

\* 北京, 上海, 长治: domestic.  曼谷: in the set.  曼谷素万那普: contains a name
\* of the set.  The single character 京: contained in a name of the set (东京).
Beijing == <<"U5317", "U4EAC">>
Shanghai == <<"U4E0A", "U6D77">>
Changzhi == <<"U957F", "U6CBB">>
Bangkok == <<"U66FC", "U8C37">>
BangkokSuvarnabhumi == <<"U66FC", "U8C37", "U7D20", "U4E07", "U90A3", "U666E">>
JingChar == <<"U4EAC">>

PlanCities == {Beijing, Shanghai, Changzhi, Bangkok, BangkokSuvarnabhumi, JingChar}

MaxHubs == 2

HubLists == UNION {[1..n -> PlanCities] : n \in 0..MaxHubs}

RouteIdle ==
    /\ segment_data = <<>>
    /\ accommodation_threshold_hours = 6 /\ accommodation_enabled = TRUE
    /\ all_routes = <<>> /\ feasible_routes = <<>> /\ calc_pc = "idle"

InitPlan ==
    /\ origin \in PlanCities /\ destination \in PlanCities
    /\ hub_cities \in HubLists
    /\ date = BaseDay
    /\ include_direct \in BOOLEAN
    /\ transport_filter \in {"all", "flight", "train"}
    /\ queries = <<>> /\ plan_pc = "ready"
    /\ RouteIdle
    /\ ExecIdle

\* SegmentQueryEngine.build_segment_queries, the whole call
BuildSegmentQueries ==
    /\ plan_pc = "ready"
    /\ queries' = build_segment_queries(origin, destination, date, hub_cities,
                                        include_direct, transport_filter)
    /\ plan_pc' = "done"
    /\ UNCHANGED <<include_direct, transport_filter>>
    /\ UNCHANGED routeVars
    /\ UNCHANGED execVars

NextPlan == BuildSegmentQueries

SpecPlan == InitPlan /\ [][NextPlan]_vars

-----------------------------------------------------------------------------
(* Claims on build_segment_queries, checked under SpecPlan *)

\* international by the set: a member, or a name that contains or is contained in one
InternationalByTheSet(city) ==
    \E c \in INTERNATIONAL_CITIES :
        c = city \/ Contains(city, c) \/ Contains(c, city)

\* C7: whatever the origin, destination, hub list, include_direct flag and
\* transport filter, no emitted query of mode train has an international
\* from_city or to_city.
C7_NoTrainQueryWithInternationalEnd ==
    plan_pc = "done" =>
        \A i \in 1..Len(queries) :
            queries[i].mode = TRAIN =>
                /\ ~ InternationalByTheSet(queries[i].from_city)
                /\ ~ InternationalByTheSet(queries[i].to_city)

\* a plan with a train leg between domestic cities and a flight-only leg whose
\* far end is international only by substring match
C7_Witness ==
    /\ plan_pc = "done"
    /\ transport_filter = "all"
    /\ \E i \in 1..Len(queries) : queries[i].mode = TRAIN
    /\ \E i \in 1..Len(queries) :
          /\ queries[i].mode = FLIGHT
          /\ queries[i].to_city = BangkokSuvarnabhumi
          /\ ~ \E j \in 1..Len(queries) :
                  /\ queries[j].mode = TRAIN
                  /\ queries[j].from_city = queries[i].from_city
                  /\ queries[j].to_city = queries[i].to_city

-----------------------------------------------------------------------------
(* segment_query.py : gateway replies and the reply validator *)

\* A Chinese word of the source is one token, named by its pinyin:
\* 超时 chaoshi, 失败 shibai, 异常 yichang, 无 wu, 法 fa, 未 wei, 找到 zhaodao,
\* 数据 shuju, 查询 chaxun, 航班 hangban, 车次 checi, 价格 jiage, 出发 chufa,
\* 到达 daoda, 条 tiao, 工具 gongju, 调用 diaoyong, 错误 cuowu, 服务 fuwu,
\* 连接 lianjie.  Digits, blanks and punctuation are one token each.
error_indicators ==
    { <<"chaoshi">>, <<"timeout">>, <<"error">>, <<"failed">>, <<"shibai">>,
      <<"yichang">>, <<"exception">>, <<"wu", "fa">>, <<"cannot">>,
      <<"wei", "zhaodao">>, <<"not", " ", "found">>, <<"wu", "shuju">>,
      <<"no", " ", "data">>, <<"chaxun", "shibai">> }

valid_indicators ==
    { <<"flight">>, <<"train">>, <<"hangban">>, <<"checi">>, <<"price">>,
      <<"jiage">>, <<"departure">>, <<"arrival">>, <<"chufa">>, <<"daoda">> }

is_valid_response(data) ==
    /\ data # <<>>
    /\ LET data_lower == Lower(data)
       IN  /\ ~ \E indicator \in error_indicators : Contains(data_lower, indicator)
           /\ \E indicator \in valid_indicators : Contains(data_lower, indicator)

\* the test of line 450: "找到 0 条航班" in data or "0条航班" in data
ZeroFlightText(data) ==
    \/ Contains(data, <<"zhaodao", " ", "0", " ", "tiao", "hangban">>)
    \/ Contains(data, <<"0", "tiao", "hangban">>)

\* an outcome of mcp_manager.call_tool: a returned string or a raised exception
Reply(data) == [raised |-> FALSE, data |-> data]
Raised == [raised |-> TRUE, data |-> <<>>]

\* "找到 3 条航班", "找到 10条航班", "找到 0 条航班", "找到0条航班"
FlightList3 == <<"zhaodao", " ", "3", " ", "tiao", "hangban">>
FlightList10 == <<"zhaodao", " ", "1", "0", "tiao", "hangban">>
FlightZeroSpaced == <<"zhaodao", " ", "0", " ", "tiao", "hangban">>
FlightZeroTight == <<"zhaodao", "0", "tiao", "hangban">>
\* "车次 G1 价格 100"
TrainList == <<"checi", " ", "G", "1", " ", "jiage", " ", "1", "0", "0">>
\* MCPClientWorker.call_tool: "工具调用超时: {tool_name}"
ToolTimeout(tool) == <<"gongju", "diaoyong", "chaoshi", ":", " ">> \o tool
\* MCPClientWorker.call_tool: "错误: {name} 服务未连接"
NotConnected(name) == <<"cuowu", ":", " ">> \o name \o <<" ", "fuwu", "wei", "lianjie">>
\* MCPServiceManager.call_tool: "未知工具: {tool_name}" (未知 wei zhi), returned
\* when the client of the tool's family is None
UnknownTool(tool) == <<"wei", "zhi", "gongju", ":", " ">> \o tool
\* MCPServiceManager.call_tool: "工具调用失败: {str(e)}"
ToolFailed == <<"gongju", "diaoyong", "shibai", ":", " ", "E">>

FlightTool == <<"flight", "_", "search", "Flight", "Routes">>
TicketsTool == <<"train", "_", "get", "-", "tickets">>

FlightOutcomes ==
    { Reply(FlightList3), Reply(FlightList10), Reply(FlightZeroSpaced),
      Reply(FlightZeroTight), Reply(ToolTimeout(FlightTool)),
      Reply(NotConnected(FLIGHT)), Reply(UnknownTool(FlightTool)), Reply(ToolFailed),
      Reply(<<>>), Raised }

\* one outcome for each branch of the retry loop
FlightOutcomesCore ==
    { Reply(FlightList3), Reply(FlightZeroSpaced), Reply(ToolTimeout(FlightTool)),
      Raised }

TicketsOutcomes ==
    { Reply(TrainList), Reply(ToolTimeout(TicketsTool)), Reply(NotConnected(TRAIN)),
      Reply(UnknownTool(TicketsTool)), Raised }

\* train_get-station-code-of-citys: a JSON object that holds the station code of
\* the city, a JSON object without it, or anything json.loads / .get fails on
StationOutcomes == {"code", "absent", "malformed"}

StationCode(city) == <<"code", "-">> \o city

-----------------------------------------------------------------------------
(* segment_query.py : query_single_segment and execute_parallel_queries *)

max_retries == 2

\* query.segment_id or f"{from_city}_{to_city}_{mode.value}"
ResultId(query) ==
    IF query.segment_id # <<>> THEN query.segment_id
    ELSE SegmentKey(query.from_city, query.to_city, query.mode)

SegmentResult(segment_id, from_city, to_city, mode, success, data, error) ==
    [segment_id |-> segment_id, from_city |-> from_city, to_city |-> to_city,
     mode |-> mode, success |-> success, data |-> data, error |-> error]

\* the result object query_single_segment starts from
NewResult(query) ==
    SegmentResult(ResultId(query), query.from_city, query.to_city, query.mode,
                  FALSE, <<>>, "")

IsFlight(query) == query.mode = FLIGHT
flight_queries(qs) == SelectSeq(qs, IsFlight)
TrainPositions(qs) == {i \in 1..Len(qs) : qs[i].mode = TRAIN}

NewWorker(query) ==
    [pc |-> "queued", from_station |-> <<>>, to_station |-> <<>>,
     tickets_calls |-> 0, result |-> NewResult(query)]

\* faulty variant: only the station code of the origin is checked
AfterStationCodes_FromOnly(w) ==
    IF w.from_station = <<>>
    THEN [w EXCEPT !.pc = "record", !.result.error = "no station code (from)"]
    ELSE [w EXCEPT !.pc = "tickets_wait", !.tickets_calls = @ + 1]

\* "if not from_station" / "if not to_station", then the train_get-tickets call
AfterStationCodes(w) ==
    IF w.from_station = <<>>
    THEN [w EXCEPT !.pc = "record", !.result.error = "no station code (from)"]
    ELSE IF w.to_station = <<>>
    THEN [w EXCEPT !.pc = "record", !.result.error = "no station code (to)"]
    ELSE [w EXCEPT !.pc = "tickets_wait", !.tickets_calls = @ + 1]

\* get_station_code returns code: to from_station first, to to_station second
GotCode(w, code) ==
    IF w.pc \in {"gsc_from", "gsc_from_wait"}
    THEN [w EXCEPT !.from_station = code, !.pc = "gsc_to"]
    ELSE AfterStationCodes([w EXCEPT !.to_station = code])

CityOf(query, w) ==
    IF w.pc \in {"gsc_from", "gsc_from_wait"} THEN query.from_city ELSE query.to_city

\* tasks the pool is running
ActiveWorkers(ws) == {i \in DOMAIN ws : ws[i].pc \notin {"queued", "done"}}

\* faulty variant: the pool is left without waiting for its tasks
PoolDrained_NoWait(ws) == TRUE

\* leaving the "with ThreadPoolExecutor" block: every task has finished
PoolDrained(ws) == \A i \in DOMAIN ws : ws[i].pc = "done"

\* faulty variant: the results of the earlier run are kept
ClearedResults_KeepOld(results) == results

\* self._segment_results.clear()
ClearedResults(results) == EmptyMap

\* execute_parallel_queries up to the submission of the train tasks: clear the
\* results, split the queries, enter phase 1 (or phase 2 when there is no train)
StartRun ==
    /\ exec_pc = "ready"
    /\ results_before_run' = segment_results
    /\ segment_results' = ClearedResults(segment_results)
    /\ results_order' = IF DOMAIN segment_results' = {} THEN <<>> ELSE results_order
    /\ completed' = 0
    /\ workers' = [i \in TrainPositions(queries) |-> NewWorker(queries[i])]
    /\ exec_pc' = IF TrainPositions(queries) # {} THEN "phase1" ELSE "phase2"
    /\ flight_idx' = 1 /\ flight_pc' = "next"
    /\ UNCHANGED <<retry_count, flight_history, flight_result, progress_calls,
                   returned_map, station_cache, station_cache_lock, station_calls>>
    /\ UNCHANGED <<gatewayVars, callerVars, routeVars, planVars>>

\* the pool starts train_worker(query), taking the submissions in the order they
\* were made: query_single_segment up to the first get_station_code
TrainWorkerStart(i) ==
    /\ i \in DOMAIN workers /\ workers[i].pc = "queued"
    /\ \A j \in DOMAIN workers : workers[j].pc = "queued" => i <= j
    /\ Cardinality(ActiveWorkers(workers)) < max_workers
    /\ workers' = [workers EXCEPT ![i] =
          IF ~ train_running
          THEN [@ EXCEPT !.pc = "record", !.result.error = "train service not started"]
          ELSE [@ EXCEPT !.pc = "gsc_from"]]
    /\ UNCHANGED <<segment_results, station_cache, station_cache_lock, exec_pc, completed, progress_calls,
                   returned_map, results_before_run, station_calls, results_order>>
    /\ UNCHANGED <<gatewayVars, callerVars, flightLoopVars, routeVars, planVars>>

\* calls of train_get-station-code-of-citys made for city so far
CallsFor(calls, city) == IF city \in DOMAIN calls THEN calls[city] ELSE 0

\* "if city in self._station_cache"
CacheHit(cache, city) == city \in DOMAIN cache

\* faulty variant: the provider call is made inside the "with" block
LockAfterMiss_HeldAcrossCall(i) == i

\* the lock after the first "with self._station_cache_lock" block was left on a
\* miss: free
LockAfterMiss(i) == 0

\* get_station_code: "with self._station_cache_lock" of the lookup is entered
StationCacheAcquire(i) ==
    /\ i \in DOMAIN workers /\ workers[i].pc \in {"gsc_from", "gsc_to"}
    /\ station_cache_lock = 0
    /\ station_cache_lock' = i
    /\ workers' = [workers EXCEPT ![i].pc = IF @ = "gsc_from" THEN "gsc_from_locked"
                                                              ELSE "gsc_to_locked"]
    /\ UNCHANGED <<segment_results, station_cache, exec_pc, completed, progress_calls,
                   returned_map, results_before_run, station_calls, results_order>>
    /\ UNCHANGED <<gatewayVars, callerVars, flightLoopVars, routeVars, planVars>>

\* the state of the task once the lookup is over: back where the lock was taken
Unlocked(w) ==
    [w EXCEPT !.pc = IF @ = "gsc_from_locked" THEN "gsc_from" ELSE "gsc_to"]

\* get_station_code: the lookup under _station_cache_lock; a hit returns from
\* inside the block, on a miss the block is left and the provider call is issued
StationCodeLookup(i) ==
    /\ i \in DOMAIN workers /\ workers[i].pc \in {"gsc_from_locked", "gsc_to_locked"}
    /\ station_cache_lock = i
    /\ LET city == CityOf(queries[i], Unlocked(workers[i]))
       IN  /\ workers' = [workers EXCEPT ![i] =
                 IF CacheHit(station_cache, city)
                 THEN GotCode(Unlocked(@), station_cache[city])
                 ELSE IF ~ train_running THEN GotCode(Unlocked(@), <<>>)
                 ELSE [@ EXCEPT !.pc = IF @ = "gsc_from_locked" THEN "gsc_from_wait"
                                                                ELSE "gsc_to_wait"]]
           /\ station_cache_lock' =
                 IF CacheHit(station_cache, city) \/ ~ train_running THEN 0
                 ELSE LockAfterMiss(i)
           /\ station_calls' =
                 IF CacheHit(station_cache, city) \/ ~ train_running THEN station_calls
                 ELSE MapPut(station_calls, city, CallsFor(station_calls, city) + 1)
    /\ UNCHANGED <<segment_results, station_cache, exec_pc, completed, progress_calls,
                   returned_map, results_before_run, results_order>>
    /\ UNCHANGED <<gatewayVars, callerVars, flightLoopVars, routeVars, planVars>>

\* the outcomes of a call: the one reply of a fixed provider, or any of the set
StationOutcomesOf(prov, city) ==
    IF prov.fixed THEN {prov.reply[<<"station", city>>]} ELSE StationOutcomes

TicketsOutcomesOf(prov, w) ==
    IF prov.fixed THEN {prov.reply[<<"tickets", w.from_station, w.to_station>>]}
    ELSE TicketsOutcomes

\* get_station_code: the provider call returns; the code is parsed and stored
\* under _station_cache_lock, or the exception is caught and "" returned
StationCodeReply(i) ==
    /\ i \in DOMAIN workers /\ workers[i].pc \in {"gsc_from_wait", "gsc_to_wait"}
    /\ LET city == CityOf(queries[i], workers[i])
       IN  \E outcome \in StationOutcomesOf(provider, city) :
              LET code == IF outcome = "code" THEN StationCode(city) ELSE <<>>
              IN  /\ outcome # "malformed" => station_cache_lock = 0
                  /\ station_cache' = IF outcome = "malformed" THEN station_cache
                                      ELSE MapPut(station_cache, city, code)
                  /\ station_cache_lock' = IF outcome = "malformed" THEN station_cache_lock
                                           ELSE 0
                  /\ workers' = [workers EXCEPT ![i] = GotCode(@, code)]
    /\ UNCHANGED <<segment_results, exec_pc, completed, progress_calls,
                   returned_map, results_before_run, station_calls, results_order>>
    /\ UNCHANGED <<gatewayVars, callerVars, flightLoopVars, routeVars, planVars>>

\* query_single_segment, train branch: train_get-tickets returns
TicketsReply(i) ==
    /\ i \in DOMAIN workers /\ workers[i].pc = "tickets_wait"
    /\ \E outcome \in TicketsOutcomesOf(provider, workers[i]) :
          workers' = [workers EXCEPT ![i] =
              IF outcome.raised
              THEN [@ EXCEPT !.pc = "record", !.result.error = "exception"]
              ELSE IF is_valid_response(outcome.data)
              THEN [@ EXCEPT !.pc = "record", !.result.data = outcome.data,
                             !.result.success = TRUE]
              ELSE [@ EXCEPT !.pc = "record", !.result.data = outcome.data,
                             !.result.error = "query failed or timed out"]]
    /\ UNCHANGED <<segment_results, station_cache, station_cache_lock, exec_pc, completed, progress_calls,
                   returned_map, results_before_run, station_calls, results_order>>
    /\ UNCHANGED <<gatewayVars, callerVars, flightLoopVars, routeVars, planVars>>

\* update_progress, the block under _results_lock
TrainRecord(i) ==
    /\ i \in DOMAIN workers /\ workers[i].pc = "record"
    /\ completed' = completed + 1
    /\ segment_results' = MapPut(segment_results, workers[i].result.segment_id,
                                 workers[i].result)
    /\ results_order' = KeyOrderPut(results_order, workers[i].result.segment_id)
    /\ workers' = [workers EXCEPT ![i].pc = "callback"]
    /\ UNCHANGED <<station_cache, station_cache_lock, exec_pc, progress_calls, returned_map,
                   results_before_run, station_calls>>
    /\ UNCHANGED <<gatewayVars, callerVars, flightLoopVars, routeVars, planVars>>

\* update_progress after the lock: progress_callback(completed[0], total, ...)
TrainCallback(i) ==
    /\ i \in DOMAIN workers /\ workers[i].pc = "callback"
    /\ progress_calls' = Append(progress_calls, completed)
    /\ workers' = [workers EXCEPT ![i].pc = "done"]
    /\ UNCHANGED <<segment_results, station_cache, station_cache_lock, exec_pc, completed, returned_map,
                   results_before_run, station_calls, results_order>>
    /\ UNCHANGED <<gatewayVars, callerVars, flightLoopVars, routeVars, planVars>>

\* the end of the "with ThreadPoolExecutor" block
PoolShutdown ==
    /\ exec_pc = "phase1"
    /\ PoolDrained(workers)
    /\ exec_pc' = "phase2"
    /\ UNCHANGED <<segment_results, station_cache, station_cache_lock, completed, workers, progress_calls,
                   returned_map, results_before_run, station_calls, results_order>>
    /\ UNCHANGED <<gatewayVars, callerVars, flightLoopVars, routeVars, planVars>>

\* the serial loop takes the next flight query: query_single_segment up to the
\* first flight_searchFlightRoutes call
FlightQueryStart ==
    /\ exec_pc = "phase2" /\ flight_pc = "next"
    /\ flight_idx <= Len(flight_queries(queries))
    /\ LET query == flight_queries(queries)[flight_idx]
       IN  IF ~ flight_running
           THEN /\ flight_result' = [NewResult(query) EXCEPT
                                        !.error = "flight service not started"]
                /\ flight_pc' = "record"
           ELSE /\ flight_result' = NewResult(query)
                /\ flight_pc' = "wait"
    /\ retry_count' = 0 /\ flight_history' = <<>>
    /\ UNCHANGED <<segment_results, station_cache, station_cache_lock, exec_pc, completed, workers,
                   flight_idx, progress_calls, returned_map, results_before_run, station_calls, results_order>>
    /\ UNCHANGED <<gatewayVars, callerVars, routeVars, planVars>>

\* The outcomes explored for a flight call: all of them for a 上海 -> 北京 query,
\* one per branch of the retry loop for the other routes.
FlightOutcomesFor(query) ==
    IF query.from_city = Shanghai /\ query.to_city = Beijing
    THEN FlightOutcomes ELSE FlightOutcomesCore

FlightOutcomesOf(prov, query) ==
    IF prov.fixed THEN {prov.reply[<<"flight", query.from_city, query.to_city>>]}
    ELSE FlightOutcomesFor(query)

\* the flight call returns or raises: success, one more attempt, or give up
FlightReply ==
    /\ exec_pc = "phase2" /\ flight_pc = "wait"
    /\ \E outcome \in FlightOutcomesOf(provider, flight_queries(queries)[flight_idx]) :
          /\ flight_history' = Append(flight_history, outcome)
          /\ IF outcome.raised
             THEN /\ flight_result' = [flight_result EXCEPT !.error = "exception"]
                  /\ flight_pc' = "record" /\ UNCHANGED retry_count
             ELSE IF is_valid_response(outcome.data) /\ ~ ZeroFlightText(outcome.data)
             THEN /\ flight_result' = [flight_result EXCEPT !.success = TRUE,
                                                            !.data = outcome.data]
                  /\ flight_pc' = "record" /\ UNCHANGED retry_count
             ELSE IF retry_count < max_retries
             THEN /\ retry_count' = retry_count + 1
                  /\ UNCHANGED <<flight_result, flight_pc>>
             ELSE /\ flight_result' = [flight_result EXCEPT
                        !.data = outcome.data,
                        !.error = IF is_valid_response(outcome.data)
                                  THEN "zero flights after 2 retries"
                                  ELSE "failed or timed out after 2 retries"]
                  /\ flight_pc' = "record" /\ UNCHANGED retry_count
    /\ UNCHANGED <<segment_results, station_cache, station_cache_lock, exec_pc, completed, workers,
                   flight_idx, progress_calls, returned_map, results_before_run, station_calls, results_order>>
    /\ UNCHANGED <<gatewayVars, callerVars, routeVars, planVars>>

\* update_progress for the flight query, the block under _results_lock
FlightRecord ==
    /\ exec_pc = "phase2" /\ flight_pc = "record"
    /\ completed' = completed + 1
    /\ segment_results' = MapPut(segment_results, flight_result.segment_id,
                                 flight_result)
    /\ results_order' = KeyOrderPut(results_order, flight_result.segment_id)
    /\ flight_pc' = "callback"
    /\ UNCHANGED <<station_cache, station_cache_lock, exec_pc, workers, flight_idx, retry_count,
                   flight_history, flight_result, progress_calls, returned_map,
                   results_before_run, station_calls>>
    /\ UNCHANGED <<gatewayVars, callerVars, routeVars, planVars>>

\* progress_callback for the flight query, then the next iteration of the loop
FlightCallback ==
    /\ exec_pc = "phase2" /\ flight_pc = "callback"
    /\ progress_calls' = Append(progress_calls, completed)
    /\ flight_idx' = flight_idx + 1 /\ flight_pc' = "next"
    /\ retry_count' = 0 /\ flight_history' = <<>> /\ flight_result' = EmptyMap
    /\ UNCHANGED <<segment_results, station_cache, station_cache_lock, exec_pc, completed, workers,
                   returned_map, results_before_run, station_calls, results_order>>
    /\ UNCHANGED <<gatewayVars, callerVars, routeVars, planVars>>

\* return self._segment_results.copy()
ReturnResults ==
    /\ exec_pc = "phase2" /\ flight_pc = "next"
    /\ flight_idx > Len(flight_queries(queries))
    /\ returned_map' = segment_results
    /\ exec_pc' = "returned"
    /\ UNCHANGED <<segment_results, station_cache, station_cache_lock, completed, workers, progress_calls,
                   results_before_run, station_calls, results_order>>
    /\ UNCHANGED <<gatewayVars, callerVars, flightLoopVars, routeVars, planVars>>

\* The runs explored: what build_segment_queries plans for
\*   曼谷 -> 长治 via 北京, with direct, all modes   (3 flights, 1 train)
\*   北京 -> 长治 via 上海, no direct, all modes     (2 flights, 2 trains)
\*   上海 -> 北京, direct only, flights              (1 flight)
\*   曼谷 -> 长治 via 北京 twice, trains only        (2 trains, the same segment_id)
\*   北京 -> 上海, no direct, no hub                 (no query)
\* and the second and third with every segment_id left at its default "".
Scenario(o, d, h, inc, f, blank) ==
    [o |-> o, d |-> d, h |-> h, inc |-> inc, f |-> f, blank |-> blank]

Scenarios ==
    { Scenario(Bangkok, Changzhi, <<Beijing>>, TRUE, "all", FALSE),
      Scenario(Beijing, Changzhi, <<Shanghai>>, FALSE, "all", FALSE),
      Scenario(Beijing, Changzhi, <<Shanghai>>, FALSE, "all", TRUE),
      Scenario(Shanghai, Beijing, <<>>, TRUE, "flight", FALSE),
      Scenario(Shanghai, Beijing, <<>>, TRUE, "flight", TRUE),
      Scenario(Bangkok, Changzhi, <<Beijing, Beijing>>, FALSE, "train", FALSE),
      Scenario(Beijing, Shanghai, <<>>, FALSE, "all", FALSE) }

BlankIds(qs) == [i \in 1..Len(qs) |-> [qs[i] EXCEPT !.segment_id = <<>>]]

\* what an earlier run on the same engine left behind
EarlierResult(segment_id) ==
    SegmentResult(segment_id, Beijing, Shanghai, FLIGHT, TRUE,
                  <<"earlier", " ", "flight">>, "")
EarlierResults ==
    MapPut(MapPut(EmptyMap, IdDirect(FLIGHT), EarlierResult(IdDirect(FLIGHT))),
           IdLeg1(Changzhi, FLIGHT), EarlierResult(IdLeg1(Changzhi, FLIGHT)))
EarlierCache == MapPut(EmptyMap, Shanghai, StationCode(Shanghai))

\* execute_parallel_queries is about to be called
RunReady ==
    /\ exec_pc = "ready" /\ completed = 0
    /\ workers = EmptyMap /\ flight_idx = 1 /\ flight_pc = "next"
    /\ retry_count = 0 /\ flight_history = <<>> /\ flight_result = EmptyMap
    /\ progress_calls = <<>> /\ returned_map = EmptyMap
    /\ results_before_run = EmptyMap
    /\ station_calls = EmptyMap
    /\ run_no = 1 /\ first_plans = <<>> /\ cancel_signalled = FALSE
    /\ StandaloneIdle
    /\ HubsIdle

Init ==
    /\ \E sc \in Scenarios :
          /\ origin = sc.o /\ destination = sc.d /\ hub_cities = sc.h
          /\ include_direct = sc.inc /\ transport_filter = sc.f
          /\ LET built == build_segment_queries(sc.o, sc.d, BaseDay, sc.h, sc.inc, sc.f)
             IN  queries = IF sc.blank THEN BlankIds(built) ELSE built
    /\ date = BaseDay /\ plan_pc = "done"
    /\ RouteIdle
    /\ \/ flight_running = TRUE /\ train_running = TRUE
       \/ flight_running = TRUE /\ train_running = FALSE
       \/ flight_running = FALSE /\ train_running = TRUE
    \* a fresh engine, or one that has run before
    /\ \/ /\ segment_results = EmptyMap /\ results_order = <<>>
          /\ station_cache = EmptyMap /\ station_cache_lock = 0
       \/ /\ segment_results = EarlierResults
          /\ results_order = <<IdDirect(FLIGHT), IdLeg1(Changzhi, FLIGHT)>>
          /\ station_cache = EarlierCache /\ station_cache_lock = 0
    /\ max_workers \in {1, 15}
    /\ provider = AnyReply
    /\ RunReady

Next ==
    \/ StartRun
    \/ \E i \in 1..Len(queries) :
          \/ TrainWorkerStart(i)
          \/ StationCacheAcquire(i)
          \/ StationCodeLookup(i)
          \/ StationCodeReply(i)
          \/ TicketsReply(i)
          \/ TrainRecord(i)
          \/ TrainCallback(i)
    \/ PoolShutdown
    \/ FlightQueryStart
    \/ FlightReply
    \/ FlightRecord
    \/ FlightCallback
    \/ ReturnResults

Spec == Init /\ [][Next]_vars

-----------------------------------------------------------------------------
(* Claims on execute_parallel_queries and query_single_segment, checked under Spec *)

SubmittedIds == {ResultId(queries[i]) : i \in 1..Len(queries)}

\* C8: whatever the interleaving of the train workers, the map returned by
\* execute_parallel_queries has exactly the segment ids of the submitted queries
\* as its keys, each entry is the result of that id, and nothing the engine held
\* before the run is left in it.
C8_ReturnedMapIsTheRun ==
    exec_pc = "returned" =>
        /\ DOMAIN returned_map = SubmittedIds
        /\ \A k \in DOMAIN returned_map :
              /\ returned_map[k].segment_id = k
              /\ k \in DOMAIN results_before_run =>
                    returned_map[k] # results_before_run[k]

\* a run of two concurrent train workers and two flights, on an engine that held
\* results of an earlier run, one of them under an id this run does not submit
C8_Witness ==
    /\ exec_pc = "returned"
    /\ max_workers > 1
    /\ Cardinality(DOMAIN workers) = 2
    /\ Len(flight_queries(queries)) = 2
    /\ \E k \in DOMAIN results_before_run : k \notin SubmittedIds
    /\ \E i \in DOMAIN workers : workers[i].result.success
    /\ progress_calls = <<2, 2, 3, 4>>

OutstandingTrainCalls ==
    {i \in DOMAIN workers :
        workers[i].pc \in {"gsc_from_wait", "gsc_to_wait", "tickets_wait"}}

FlightCallOutstanding == flight_pc = "wait"

\* C9: while a flight query has a provider call outstanding, no train query has
\* one (the flight loop itself has a single query in progress), and every train
\* query of the run has recorded its result.
C9_FlightCallsAlone ==
    FlightCallOutstanding =>
        /\ OutstandingTrainCalls = {}
        /\ \A i \in DOMAIN workers :
              /\ workers[i].pc \in {"callback", "done"}
              /\ ResultId(queries[i]) \in DOMAIN segment_results

\* the second flight of a run with two train queries is being retried
C9_Witness ==
    /\ FlightCallOutstanding
    /\ Cardinality(DOMAIN workers) = 2
    /\ flight_idx = 2 /\ retry_count = 1
    /\ \E i \in DOMAIN workers : workers[i].result.data = TrainList

Digits == {"0", "1", "2", "3", "4", "5", "6", "7", "8", "9"}

\* the reply says that zero flights were found: a count "0" that is not the last
\* digit of a longer number, followed by 条航班
ReportsZeroFlights(data) ==
    \E i \in 1..Len(data) :
        /\ data[i] = "0"
        /\ i > 1 => data[i - 1] \notin Digits
        /\ \/ SubSeq(data, i + 1, i + 2) = <<"tiao", "hangban">>
           \/ SubSeq(data, i + 1, i + 3) = <<" ", "tiao", "hangban">>

\* valid for the validator and not a zero-flight reply
UsableReply(outcome) ==
    /\ ~ outcome.raised
    /\ is_valid_response(outcome.data)
    /\ ~ ReportsZeroFlights(outcome.data)

\* C10 (as claimed): for a flight query with the flight service running, at most
\* 3 provider calls are made; the loop stops at the first reply that is valid and
\* not a zero-flight reply, with success = true; a reply that is invalid or
\* reports zero flights is followed by another call until 3 are made; and when no
\* reply was usable, success = false.
C10_FlightRetryContract ==
    (exec_pc = "phase2" /\ flight_pc = "record" /\ flight_running) =>
        LET n == Len(flight_history)
        IN  /\ n >= 1 /\ n <= 3
            /\ \A k \in 1..n :
                  UsableReply(flight_history[k]) => (k = n /\ flight_result.success)
            /\ ~ UsableReply(flight_history[n]) => ~ flight_result.success
            /\ n < 3 => (UsableReply(flight_history[n]) \/ flight_history[n].raised)

-----------------------------------------------------------------------------
(* Claims on get_station_code, checked under Spec *)

\* C11 (as claimed): within a run the station-code tool is called at most once
\* for each city, whatever the interleaving of the workers and whatever the
\* provider replies.
C11_OneStationCallPerCity ==
    \A city \in DOMAIN station_calls : station_calls[city] <= 1

\* C12 (as claimed): once the station-code cache holds an entry for a city, no
\* later step changes the value stored for that city.
C12_CacheEntryNeverRewritten ==
    [][\A city \in DOMAIN station_cache :
          /\ city \in DOMAIN station_cache'
          /\ station_cache'[city] = station_cache[city]]_vars

-----------------------------------------------------------------------------
(* segment_query.py : a whole trip query, execute_parallel_queries followed by
   build_summary_for_ai (which calls calculate_all_routes) *)

\* The records a payload holds: a payload text names them by one token each, and
\* json.loads yields them in the order of the text.
TripT1 == Rec("T1", 8 * 60, 10 * 60, 120, 0, 100)
TripT2 == Rec("T2", 8 * 60, 10 * 60, 120, 0, 100)
TripT3 == Rec("T3", 7 * 60, 9 * 60, 120, 0, 80)
TripF1 == Rec("F1", 8 * 60 + 30, 9 * 60 + 30, 60, 0, 300)
TripF2 == Rec("F2", 15 * 60, 17 * 60, 120, 0, 500)
TripF3 == Rec("F3", 6 * 60, 7 * 60, 60, 0, 200)

RecordTokens == {"T1", "T2", "T3", "F1", "F2", "F3"}

RecordOfToken(t) ==
    CASE t = "T1" -> TripT1 [] t = "T2" -> TripT2 [] t = "T3" -> TripT3
      [] t = "F1" -> TripF1 [] t = "F2" -> TripF2 [] t = "F3" -> TripF3

\* json.loads(raw_data) and the choice of the list of records in it
DecodePayload(data) ==
    ConcatMap(LAMBDA t : IF t \in RecordTokens THEN <<RecordOfToken(t)>> ELSE <<>>,
              data)

\* "车次 T1", "车次 T2", a train list that holds the word "error" in a field,
\* "航班 F1", "航班 F2", "找到 10条航班 F3"
TrainReplyA == <<"checi", " ", "T1">>
TrainReplyB == <<"checi", " ", "T2">>
TrainReplyWithErrorWord == <<"checi", " ", "T3", " ", "error">>
FlightReplyA == <<"hangban", " ", "F1">>
FlightReplyB == <<"hangban", " ", "F2">>
FlightReplyTen == <<"zhaodao", " ", "1", "0", "tiao", "hangban", " ", "F3">>

SummaryFilter_DataOnly(result) == result.data # <<>>

\* "if seg_result.success and seg_result.data"
SummaryFilter(result) == result.success /\ result.data # <<>>

\* build_summary_for_ai: segment_data, in the order of results.items()
SummarySegmentData(results, order) ==
    ConcatMap(LAMBDA seg_id :
                 IF SummaryFilter(results[seg_id])
                 THEN <<Entry(seg_id,
                              IF results[seg_id].mode = FLIGHT THEN FLIGHT ELSE TRAIN,
                              DecodePayload(results[seg_id].data))>>
                 ELSE <<>>,
              order)

\* SegmentQueryEngine.build_summary_for_ai up to the plan list it formats
BuildSummaryForAI ==
    /\ exec_pc = "returned"
    /\ segment_data' = SummarySegmentData(returned_map, results_order)
    /\ all_routes' = EnumerateAllRoutes(origin, destination, date, segment_data',
                                        hub_cities, accommodation_threshold_hours,
                                        accommodation_enabled)
    /\ feasible_routes' = RankRoutes(all_routes')
    /\ calc_pc' = "done"
    /\ exec_pc' = "summarised"
    /\ UNCHANGED <<origin, destination, date, hub_cities,
                   accommodation_threshold_hours, accommodation_enabled>>
    /\ UNCHANGED <<segment_results, station_cache, station_cache_lock, completed, workers, progress_calls,
                   returned_map, results_before_run, station_calls, results_order>>
    /\ UNCHANGED <<gatewayVars, callerVars, flightLoopVars, planVars>>

\* the caller asks for the same trip again on the same engine
QueryAgain ==
    /\ exec_pc = "summarised" /\ run_no = 1
    /\ first_plans' = feasible_routes /\ run_no' = 2 /\ cancel_signalled' = FALSE
    /\ exec_pc' = "ready" /\ completed' = 0 /\ workers' = EmptyMap
    /\ progress_calls' = <<>> /\ returned_map' = EmptyMap
    /\ results_before_run' = EmptyMap /\ station_calls' = EmptyMap
    /\ segment_data' = <<>> /\ all_routes' = <<>> /\ feasible_routes' = <<>>
    /\ calc_pc' = "idle"
    /\ UNCHANGED <<origin, destination, date, hub_cities,
                   accommodation_threshold_hours, accommodation_enabled>>
    /\ UNCHANGED <<segment_results, station_cache, station_cache_lock, results_order>>
    /\ UNCHANGED <<gatewayVars, flightLoopVars, planVars, hubSelectionVars,
                   standaloneVars>>

\* A provider that is a fixed function of the request.  Station codes are always
\* found; O -> H by train is T1; the train to the second hub and the flight
\* O -> H vary from one provider to the other; every other flight is F2.
TripHubs == {<<cH, <<"h">>>>, <<cH, cG>>}

FixedProvider(hubs, second_train, first_flight) ==
    [fixed |-> TRUE,
     reply |->
        [req \in {<<"station", c>> : c \in {cO, hubs[1], hubs[2]}}
                 \cup {<<"tickets", StationCode(cO), StationCode(hubs[i])>> : i \in {1, 2}}
                 \cup {<<"flight", cO, hubs[i]>> : i \in {1, 2}}
                 \cup {<<"flight", hubs[i], Bangkok>> : i \in {1, 2}}
         |-> IF req[1] = "station" THEN "code"
             ELSE IF req[1] = "tickets"
                  THEN IF req[3] = StationCode(hubs[1]) THEN Reply(TrainReplyA)
                       ELSE second_train
             ELSE IF req[2] = cO /\ req[3] = hubs[1] THEN first_flight
             ELSE Reply(FlightReplyB)]]

InitTrip ==
    /\ origin = cO /\ destination = Bangkok /\ hub_cities \in TripHubs
    /\ date = BaseDay
    /\ include_direct = FALSE /\ transport_filter = "all"
    /\ queries = build_segment_queries(origin, destination, date, hub_cities,
                                       include_direct, transport_filter)
    /\ plan_pc = "done"
    /\ RouteIdle
    /\ flight_running = TRUE /\ train_running = TRUE
    /\ segment_results = EmptyMap /\ results_order = <<>> /\ station_cache = EmptyMap /\ station_cache_lock = 0
    /\ max_workers \in {1, 15}
    /\ \E second_train \in {Reply(TrainReplyB), Reply(TrainReplyWithErrorWord), Raised},
          first_flight \in {Reply(FlightReplyA), Reply(FlightReplyTen)} :
          provider = FixedProvider(hub_cities, second_train, first_flight)
    /\ RunReady

\* The user asks to halt while the run is under way.  execute_parallel_queries
\* takes (queries, train_date, max_workers): nothing in it reads the request.
SignalCancel ==
    /\ exec_pc \in {"phase1", "phase2"} /\ ~ cancel_signalled
    /\ cancel_signalled' = TRUE
    /\ UNCHANGED <<run_no, first_plans, hubSelectionVars, standaloneVars>>
    /\ UNCHANGED <<segment_results, station_cache, station_cache_lock, exec_pc, completed, workers,
                   progress_calls, returned_map, results_before_run, station_calls,
                   results_order>>
    /\ UNCHANGED <<gatewayVars, flightLoopVars, routeVars, planVars>>

NextTrip ==
    \/ Next
    \/ BuildSummaryForAI
    \/ QueryAgain
    \/ SignalCancel

SpecTrip == InitTrip /\ [][NextTrip]_vars

-----------------------------------------------------------------------------
(* Claims on a whole trip query, checked under SpecTrip *)

\* C13 (as claimed): with a provider that is a fixed function of the request,
\* the second query of the same trip produces the plan list of the first, in
\* the same order, whatever the completion order of the train workers.
C13_SamePlansOnEveryRun ==
    (exec_pc = "summarised" /\ run_no = 2) => feasible_routes = first_plans

\* C14 (as claimed): once the halt has been asked for, a query that had not
\* started is skipped with a cancelled result: a queued train query that leaves
\* the queue, and a flight query taken up by the loop, make no provider call and
\* carry the error "cancelled".
C14_QueuedQueriesSkippedAfterCancel ==
    [][cancel_signalled =>
         /\ \A i \in DOMAIN workers \cap DOMAIN workers' :
               (workers[i].pc = "queued" /\ workers'[i].pc # "queued")
                  => (workers'[i].pc = "record" /\ workers'[i].result.error = "cancelled")
         /\ (exec_pc = "phase2" /\ flight_pc = "next" /\ flight_pc' # "next")
               => (flight_pc' = "record" /\ flight_result'.error = "cancelled")]_vars

-----------------------------------------------------------------------------
(* Claims on the replies the gateway writes itself, checked under Spec *)

\* the replies MCPClientWorker.call_tool and MCPServiceManager.call_tool return
\* without a provider having answered
GatewayErrorReplies ==
    { NotConnected(FLIGHT), NotConnected(TRAIN),
      UnknownTool(FlightTool), UnknownTool(TicketsTool),
      ToolFailed, ToolTimeout(FlightTool), ToolTimeout(TicketsTool) }

\* C15 (as claimed): no segment of the run is recorded with success = true and
\* a payload that is one of the gateway's own error replies (not connected,
\* unknown tool, tool call failed, timed out).
C15_NoSuccessOnGatewayErrorReply ==
    exec_pc # "ready" =>
        \A id \in DOMAIN segment_results :
            segment_results[id].success
               => segment_results[id].data \notin GatewayErrorReplies

-----------------------------------------------------------------------------
(* Claims on the summary of a trip query, checked under SpecTrip *)

\* the train and flight numbers held by the payloads of the results chosen by keep
NumbersIn(results, keep(_)) ==
    UNION { { DecodePayload(results[id].data)[k].number :
                 k \in 1 .. Len(DecodePayload(results[id].data)) } :
            id \in {x \in DOMAIN results : keep(results[x])} }

FailedResult(result) == ~ result.success \/ result.data = <<>>

UsableResult(result) == ~ FailedResult(result)

\* C16: a result with success = false or an empty payload contributes nothing to
\* the summary, even when it carries the raw payload of the failed call: it is
\* not in segment_data, and no plan holds a segment whose number occurs only in
\* the payloads of failed results.
C16_FailedResultsContributeNothing ==
    exec_pc = "summarised" =>
        /\ \A k \in 1 .. Len(segment_data) :
              UsableResult(returned_map[segment_data[k].segment_id])
        /\ \A p \in 1 .. Len(all_routes) :
              \A s \in 1 .. Len(all_routes[p].segments) :
                 all_routes[p].segments[s].number \notin
                    (NumbersIn(returned_map, FailedResult)
                        \ NumbersIn(returned_map, UsableResult))

\* the summary was built from a run in which a failed train result and a failed
\* flight result both carry a payload with records, and plans were found
C16_Witness ==
    /\ exec_pc = "summarised"
    /\ all_routes # <<>>
    /\ \E id \in DOMAIN returned_map :
          /\ returned_map[id].mode = TRAIN /\ ~ returned_map[id].success
          /\ DecodePayload(returned_map[id].data) # <<>>
    /\ \E id \in DOMAIN returned_map :
          /\ returned_map[id].mode = FLIGHT /\ ~ returned_map[id].success
          /\ DecodePayload(returned_map[id].data) # <<>>

-----------------------------------------------------------------------------
(* transfer_hubs.py : the tables *)

\* CITY_TO_REGION in the order of the dictionary: <<city, region>>, the region
\* written by the name of its Region member
CITY_TO_REGION ==
    <<
     <<<<"U5317", "U4EAC">>, "CHINA_NORTH">>, <<<<"U5929", "U6D25">>, "CHINA_NORTH">>,
     <<<<"U77F3", "U5BB6", "U5E84">>, "CHINA_NORTH">>,
     <<<<"U592A", "U539F">>, "CHINA_NORTH">>,
     <<<<"U547C", "U548C", "U6D69", "U7279">>, "CHINA_NORTH">>,
     <<<<"U6C88", "U9633">>, "CHINA_NORTHEAST">>,
     <<<<"U5927", "U8FDE">>, "CHINA_NORTHEAST">>,
     <<<<"U957F", "U6625">>, "CHINA_NORTHEAST">>,
     <<<<"U54C8", "U5C14", "U6EE8">>, "CHINA_NORTHEAST">>,
     <<<<"U4E0A", "U6D77">>, "CHINA_EAST">>, <<<<"U5357", "U4EAC">>, "CHINA_EAST">>,
     <<<<"U676D", "U5DDE">>, "CHINA_EAST">>, <<<<"U5408", "U80A5">>, "CHINA_EAST">>,
     <<<<"U798F", "U5DDE">>, "CHINA_EAST">>, <<<<"U5357", "U660C">>, "CHINA_EAST">>,
     <<<<"U6D4E", "U5357">>, "CHINA_EAST">>, <<<<"U9752", "U5C9B">>, "CHINA_EAST">>,
     <<<<"U53A6", "U95E8">>, "CHINA_EAST">>, <<<<"U5B81", "U6CE2">>, "CHINA_EAST">>,
     <<<<"U6E29", "U5DDE">>, "CHINA_EAST">>, <<<<"U70DF", "U53F0">>, "CHINA_EAST">>,
     <<<<"U5F90", "U5DDE">>, "CHINA_EAST">>, <<<<"U65E0", "U9521">>, "CHINA_EAST">>,
     <<<<"U5E38", "U5DDE">>, "CHINA_EAST">>, <<<<"U90D1", "U5DDE">>, "CHINA_CENTRAL">>,
     <<<<"U6B66", "U6C49">>, "CHINA_CENTRAL">>, <<<<"U957F", "U6C99">>, "CHINA_CENTRAL">>,
     <<<<"U5E7F", "U5DDE">>, "CHINA_SOUTH">>, <<<<"U6DF1", "U5733">>, "CHINA_SOUTH">>,
     <<<<"U5357", "U5B81">>, "CHINA_SOUTH">>, <<<<"U6D77", "U53E3">>, "CHINA_SOUTH">>,
     <<<<"U4E09", "U4E9A">>, "CHINA_SOUTH">>, <<<<"U6842", "U6797">>, "CHINA_SOUTH">>,
     <<<<"U91CD", "U5E86">>, "CHINA_SOUTHWEST">>,
     <<<<"U6210", "U90FD">>, "CHINA_SOUTHWEST">>,
     <<<<"U8D35", "U9633">>, "CHINA_SOUTHWEST">>,
     <<<<"U6606", "U660E">>, "CHINA_SOUTHWEST">>,
     <<<<"U62C9", "U8428">>, "CHINA_SOUTHWEST">>,
     <<<<"U897F", "U5B89">>, "CHINA_NORTHWEST">>,
     <<<<"U5170", "U5DDE">>, "CHINA_NORTHWEST">>,
     <<<<"U897F", "U5B81">>, "CHINA_NORTHWEST">>,
     <<<<"U94F6", "U5DDD">>, "CHINA_NORTHWEST">>,
     <<<<"U4E4C", "U9C81", "U6728", "U9F50">>, "CHINA_NORTHWEST">>,
     <<<<"U66FC", "U8C37">>, "SOUTHEAST_ASIA">>,
     <<<<"U65B0", "U52A0", "U5761">>, "SOUTHEAST_ASIA">>,
     <<<<"U5409", "U9686", "U5761">>, "SOUTHEAST_ASIA">>,
     <<<<"U96C5", "U52A0", "U8FBE">>, "SOUTHEAST_ASIA">>,
     <<<<"U9A6C", "U5C3C", "U62C9">>, "SOUTHEAST_ASIA">>,
     <<<<"U6CB3", "U5185">>, "SOUTHEAST_ASIA">>,
     <<<<"U80E1", "U5FD7", "U660E", "U5E02">>, "SOUTHEAST_ASIA">>,
     <<<<"U91D1", "U8FB9">>, "SOUTHEAST_ASIA">>, <<<<"U4E07", "U8C61">>, "SOUTHEAST_ASIA">>,
     <<<<"U4EF0", "U5149">>, "SOUTHEAST_ASIA">>, <<<<"U6E05", "U8FC8">>, "SOUTHEAST_ASIA">>,
     <<<<"U666E", "U5409", "U5C9B">>, "SOUTHEAST_ASIA">>,
     <<<<"U5DF4", "U5398", "U5C9B">>, "SOUTHEAST_ASIA">>,
     <<<<"U5C98", "U6E2F">>, "SOUTHEAST_ASIA">>, <<<<"U66B9", "U7C92">>, "SOUTHEAST_ASIA">>,
     <<<<"U4E1C", "U4EAC">>, "EAST_ASIA">>, <<<<"U5927", "U962A">>, "EAST_ASIA">>,
     <<<<"U540D", "U53E4", "U5C4B">>, "EAST_ASIA">>, <<<<"U798F", "U5188">>, "EAST_ASIA">>,
     <<<<"U672D", "U5E4C">>, "EAST_ASIA">>, <<<<"U51B2", "U7EF3">>, "EAST_ASIA">>,
     <<<<"U9996", "U5C14">>, "EAST_ASIA">>, <<<<"U91DC", "U5C71">>, "EAST_ASIA">>,
     <<<<"U6D4E", "U5DDE", "U5C9B">>, "EAST_ASIA">>,
     <<<<"U9999", "U6E2F">>, "HK_MACAO_TAIWAN">>,
     <<<<"U4E2D", "U56FD", "U9999", "U6E2F">>, "HK_MACAO_TAIWAN">>,
     <<<<"U6FB3", "U95E8">>, "HK_MACAO_TAIWAN">>,
     <<<<"U4E2D", "U56FD", "U6FB3", "U95E8">>, "HK_MACAO_TAIWAN">>,
     <<<<"U53F0", "U5317">>, "HK_MACAO_TAIWAN">>,
     <<<<"U4E2D", "U56FD", "U53F0", "U5317">>, "HK_MACAO_TAIWAN">>,
     <<<<"U9AD8", "U96C4">>, "HK_MACAO_TAIWAN">>,
     <<<<"U4E2D", "U56FD", "U9AD8", "U96C4">>, "HK_MACAO_TAIWAN">>,
     <<<<"U65B0", "U5FB7", "U91CC">>, "SOUTH_ASIA">>,
     <<<<"U5B5F", "U4E70">>, "SOUTH_ASIA">>,
     <<<<"U73ED", "U52A0", "U7F57", "U5C14">>, "SOUTH_ASIA">>,
     <<<<"U79D1", "U4F26", "U5761">>, "SOUTH_ASIA">>,
     <<<<"U9A6C", "U5C14", "U4EE3", "U592B">>, "SOUTH_ASIA">>,
     <<<<"U52A0", "U5FB7", "U6EE1", "U90FD">>, "SOUTH_ASIA">>,
     <<<<"U8FEA", "U62DC">>, "MIDDLE_EAST">>,
     <<<<"U963F", "U5E03", "U624E", "U6BD4">>, "MIDDLE_EAST">>,
     <<<<"U591A", "U54C8">>, "MIDDLE_EAST">>,
     <<<<"U5229", "U96C5", "U5F97">>, "MIDDLE_EAST">>,
     <<<<"U4F0A", "U65AF", "U5766", "U5E03", "U5C14">>, "MIDDLE_EAST">>,
     <<<<"U4F26", "U6566">>, "EUROPE">>, <<<<"U5DF4", "U9ECE">>, "EUROPE">>,
     <<<<"U6CD5", "U5170", "U514B", "U798F">>, "EUROPE">>,
     <<<<"U963F", "U59C6", "U65AF", "U7279", "U4E39">>, "EUROPE">>,
     <<<<"U6155", "U5C3C", "U9ED1">>, "EUROPE">>,
     <<<<"U82CF", "U9ECE", "U4E16">>, "EUROPE">>, <<<<"U7F57", "U9A6C">>, "EUROPE">>,
     <<<<"U7C73", "U5170">>, "EUROPE">>, <<<<"U9A6C", "U5FB7", "U91CC">>, "EUROPE">>,
     <<<<"U5DF4", "U585E", "U7F57", "U90A3">>, "EUROPE">>,
     <<<<"U7EF4", "U4E5F", "U7EB3">>, "EUROPE">>,
     <<<<"U83AB", "U65AF", "U79D1">>, "EUROPE">>,
     <<<<"U8D6B", "U5C14", "U8F9B", "U57FA">>, "EUROPE">>,
     <<<<"U7EBD", "U7EA6">>, "NORTH_AMERICA">>,
     <<<<"U6D1B", "U6749", "U77F6">>, "NORTH_AMERICA">>,
     <<<<"U65E7", "U91D1", "U5C71">>, "NORTH_AMERICA">>,
     <<<<"U829D", "U52A0", "U54E5">>, "NORTH_AMERICA">>,
     <<<<"U897F", "U96C5", "U56FE">>, "NORTH_AMERICA">>,
     <<<<"U6CE2", "U58EB", "U987F">>, "NORTH_AMERICA">>,
     <<<<"U534E", "U76DB", "U987F">>, "NORTH_AMERICA">>,
     <<<<"U6E29", "U54E5", "U534E">>, "NORTH_AMERICA">>,
     <<<<"U591A", "U4F26", "U591A">>, "NORTH_AMERICA">>,
     <<<<"U6089", "U5C3C">>, "OCEANIA">>, <<<<"U58A8", "U5C14", "U672C">>, "OCEANIA">>,
     <<<<"U5965", "U514B", "U5170">>, "OCEANIA">>, <<<<"U5F00", "U7F57">>, "AFRICA">>,
     <<<<"U7EA6", "U7FF0", "U5185", "U65AF", "U5821">>, "AFRICA">>
    >>

\* the keys of INTERNATIONAL_HUBS: 亚洲门户 yazhou_menhu, 东南亚枢纽 dongnanya_shuniu,
\* 中东枢纽 zhongdong_shuniu, 欧洲枢纽 ouzhou_shuniu, 北美枢纽 beimei_shuniu,
\* 大洋洲枢纽 dayangzhou_shuniu, 南亚枢纽 nanya_shuniu, 非洲枢纽 feizhou_shuniu,
\* 中南美枢纽 zhongnanmei_shuniu, 国内出境门户 guonei_chujing_menhu,
\* 国内入境门户 guonei_rujing_menhu
HubGroups ==
    {"yazhou_menhu", "dongnanya_shuniu", "zhongdong_shuniu", "ouzhou_shuniu",
     "beimei_shuniu", "dayangzhou_shuniu", "nanya_shuniu", "feizhou_shuniu",
     "zhongnanmei_shuniu", "guonei_chujing_menhu", "guonei_rujing_menhu"}

INTERNATIONAL_HUBS ==
    [g \in HubGroups |->
       CASE
         g = "yazhou_menhu" ->
            <<
             <<"U9999", "U6E2F">>, <<"U4E1C", "U4EAC">>, <<"U9996", "U5C14">>,
             <<"U53F0", "U5317">>, <<"U65B0", "U52A0", "U5761">>, <<"U5927", "U962A">>,
             <<"U540D", "U53E4", "U5C4B">>, <<"U798F", "U5188">>, <<"U91DC", "U5C71">>,
             <<"U6FB3", "U95E8">>
            >>
      []
         g = "dongnanya_shuniu" ->
            <<
             <<"U66FC", "U8C37">>, <<"U65B0", "U52A0", "U5761">>,
             <<"U5409", "U9686", "U5761">>, <<"U96C5", "U52A0", "U8FBE">>,
             <<"U9A6C", "U5C3C", "U62C9">>, <<"U6CB3", "U5185">>,
             <<"U80E1", "U5FD7", "U660E", "U5E02">>, <<"U91D1", "U8FB9">>,
             <<"U4E07", "U8C61">>, <<"U4EF0", "U5149">>, <<"U6E05", "U8FC8">>,
             <<"U666E", "U5409", "U5C9B">>, <<"U5DF4", "U5398", "U5C9B">>,
             <<"U5C98", "U6E2F">>, <<"U66B9", "U7C92">>
            >>
      []
         g = "zhongdong_shuniu" ->
            <<
             <<"U8FEA", "U62DC">>, <<"U591A", "U54C8">>,
             <<"U963F", "U5E03", "U624E", "U6BD4">>, <<"U5229", "U96C5", "U5F97">>,
             <<"U5409", "U8FBE">>, <<"U79D1", "U5A01", "U7279">>, <<"U5DF4", "U6797">>,
             <<"U9A6C", "U65AF", "U5580", "U7279">>,
             <<"U4F0A", "U65AF", "U5766", "U5E03", "U5C14">>, <<"U5B89", "U66FC">>
            >>
      []
         g = "ouzhou_shuniu" ->
            <<
             <<"U4F26", "U6566">>, <<"U5DF4", "U9ECE">>,
             <<"U6CD5", "U5170", "U514B", "U798F">>,
             <<"U963F", "U59C6", "U65AF", "U7279", "U4E39">>, <<"U6155", "U5C3C", "U9ED1">>,
             <<"U82CF", "U9ECE", "U4E16">>, <<"U7F57", "U9A6C">>, <<"U7C73", "U5170">>,
             <<"U9A6C", "U5FB7", "U91CC">>, <<"U5DF4", "U585E", "U7F57", "U90A3">>,
             <<"U7EF4", "U4E5F", "U7EB3">>, <<"U5E03", "U9C81", "U585E", "U5C14">>,
             <<"U8D6B", "U5C14", "U8F9B", "U57FA">>, <<"U83AB", "U65AF", "U79D1">>,
             <<"U5723", "U5F7C", "U5F97", "U5821">>,
             <<"U65AF", "U5FB7", "U54E5", "U5C14", "U6469">>,
             <<"U54E5", "U672C", "U54C8", "U6839">>, <<"U534E", "U6C99">>,
             <<"U5E03", "U62C9", "U683C">>, <<"U90FD", "U67CF", "U6797">>
            >>
      []
         g = "beimei_shuniu" ->
            <<
             <<"U6D1B", "U6749", "U77F6">>, <<"U65E7", "U91D1", "U5C71">>,
             <<"U897F", "U96C5", "U56FE">>, <<"U6E29", "U54E5", "U534E">>,
             <<"U7EBD", "U7EA6">>, <<"U829D", "U52A0", "U54E5">>,
             <<"U6CE2", "U58EB", "U987F">>, <<"U534E", "U76DB", "U987F">>,
             <<"U8FBE", "U62C9", "U65AF">>, <<"U4F11", "U65AF", "U987F">>,
             <<"U4E9A", "U7279", "U5170", "U5927">>, <<"U8FC8", "U963F", "U5BC6">>,
             <<"U591A", "U4F26", "U591A">>, <<"U8499", "U7279", "U5229", "U5C14">>,
             <<"U4E39", "U4F5B">>
            >>
      []
         g = "dayangzhou_shuniu" ->
            <<
             <<"U6089", "U5C3C">>, <<"U58A8", "U5C14", "U672C">>,
             <<"U5E03", "U91CC", "U65AF", "U73ED">>, <<"U73C0", "U65AF">>,
             <<"U5965", "U514B", "U5170">>, <<"U6590", "U6D4E">>, <<"U5173", "U5C9B">>,
             <<"U6A80", "U9999", "U5C71">>
            >>
      []
         g = "nanya_shuniu" ->
            <<
             <<"U65B0", "U5FB7", "U91CC">>, <<"U5B5F", "U4E70">>,
             <<"U73ED", "U52A0", "U7F57", "U5C14">>, <<"U79D1", "U4F26", "U5761">>,
             <<"U9A6C", "U5C14", "U4EE3", "U592B">>, <<"U52A0", "U5FB7", "U6EE1", "U90FD">>,
             <<"U8FBE", "U5361">>, <<"U5361", "U62C9", "U5947">>
            >>
      []
         g = "feizhou_shuniu" ->
            <<
             <<"U5F00", "U7F57">>, <<"U7EA6", "U7FF0", "U5185", "U65AF", "U5821">>,
             <<"U5F00", "U666E", "U6566">>, <<"U5185", "U7F57", "U6BD5">>,
             <<"U5361", "U8428", "U5E03", "U5170", "U5361">>,
             <<"U4E9A", "U7684", "U65AF", "U4E9A", "U8D1D", "U5DF4">>
            >>
      []
         g = "zhongnanmei_shuniu" ->
            <<
             <<"U58A8", "U897F", "U54E5", "U57CE">>, <<"U5723", "U4FDD", "U7F57">>,
             <<"U5E03", "U5B9C", "U8BFA", "U65AF", "U827E", "U5229", "U65AF">>,
             <<"U5229", "U9A6C">>, <<"U6CE2", "U54E5", "U5927">>,
             <<"U5DF4", "U62FF", "U9A6C", "U57CE">>
            >>
      []
         g = "guonei_chujing_menhu" ->
            <<
             <<"U5317", "U4EAC">>, <<"U4E0A", "U6D77">>, <<"U5E7F", "U5DDE">>,
             <<"U9999", "U6E2F">>, <<"U6210", "U90FD">>, <<"U6606", "U660E">>,
             <<"U6DF1", "U5733">>, <<"U897F", "U5B89">>, <<"U91CD", "U5E86">>,
             <<"U676D", "U5DDE">>
            >>
      []
         g = "guonei_rujing_menhu" ->
            <<
             <<"U5317", "U4EAC">>, <<"U4E0A", "U6D77">>, <<"U5E7F", "U5DDE">>,
             <<"U6DF1", "U5733">>, <<"U6210", "U90FD">>, <<"U897F", "U5B89">>,
             <<"U676D", "U5DDE">>, <<"U5357", "U4EAC">>
            >>]

RouteTypes ==
    {"DOMESTIC", "DOMESTIC_TO_SOUTHEAST_ASIA", "DOMESTIC_TO_EAST_ASIA",
     "DOMESTIC_TO_LONG_HAUL", "SOUTHEAST_ASIA_TO_DOMESTIC", "EAST_ASIA_TO_DOMESTIC",
     "INTERNATIONAL_TO_DOMESTIC", "INTERNATIONAL"}

\* ROUTE_TRANSFER_STRATEGY: the two keys get_hubs_for_route reads; a strategy
\* without "recommended_domestic" has the default of strategy.get, the empty list
ROUTE_TRANSFER_STRATEGY ==
    [t \in RouteTypes |->
       CASE
         t = "DOMESTIC" ->
            [hub_groups |-> <<>>,
             recommended_domestic |-> <<>>]
      []
         t = "DOMESTIC_TO_SOUTHEAST_ASIA" ->
            [hub_groups |-> <<"dongnanya_shuniu", "yazhou_menhu", "guonei_chujing_menhu">>,
             recommended_domestic |-> <<
                 <<"U5E7F", "U5DDE">>, <<"U6606", "U660E">>, <<"U6DF1", "U5733">>,
                 <<"U9999", "U6E2F">>, <<"U5357", "U5B81">>, <<"U6210", "U90FD">>,
                 <<"U91CD", "U5E86">>
               >>]
      []
         t = "DOMESTIC_TO_EAST_ASIA" ->
            [hub_groups |-> <<"yazhou_menhu", "guonei_chujing_menhu">>,
             recommended_domestic |-> <<
                 <<"U4E0A", "U6D77">>, <<"U5317", "U4EAC">>, <<"U9752", "U5C9B">>,
                 <<"U5927", "U8FDE">>, <<"U6C88", "U9633">>, <<"U5929", "U6D25">>,
                 <<"U676D", "U5DDE">>, <<"U5357", "U4EAC">>
               >>]
      []
         t = "DOMESTIC_TO_LONG_HAUL" ->
            [hub_groups |-> <<"yazhou_menhu", "zhongdong_shuniu", "ouzhou_shuniu", "beimei_shuniu", "dayangzhou_shuniu", "guonei_chujing_menhu">>,
             recommended_domestic |-> <<>>]
      []
         t = "SOUTHEAST_ASIA_TO_DOMESTIC" ->
            [hub_groups |-> <<"dongnanya_shuniu", "yazhou_menhu", "guonei_rujing_menhu">>,
             recommended_domestic |-> <<
                 <<"U5E7F", "U5DDE">>, <<"U6DF1", "U5733">>, <<"U6606", "U660E">>,
                 <<"U5357", "U5B81">>, <<"U9999", "U6E2F">>, <<"U6210", "U90FD">>,
                 <<"U4E0A", "U6D77">>, <<"U5317", "U4EAC">>
               >>]
      []
         t = "EAST_ASIA_TO_DOMESTIC" ->
            [hub_groups |-> <<"yazhou_menhu", "guonei_rujing_menhu">>,
             recommended_domestic |-> <<
                 <<"U4E0A", "U6D77">>, <<"U5317", "U4EAC">>, <<"U9752", "U5C9B">>,
                 <<"U5927", "U8FDE">>, <<"U6C88", "U9633">>, <<"U5929", "U6D25">>,
                 <<"U676D", "U5DDE">>, <<"U5357", "U4EAC">>
               >>]
      []
         t = "INTERNATIONAL_TO_DOMESTIC" ->
            [hub_groups |-> <<"yazhou_menhu", "zhongdong_shuniu", "ouzhou_shuniu", "beimei_shuniu", "guonei_rujing_menhu">>,
             recommended_domestic |-> <<
                 <<"U5317", "U4EAC">>, <<"U4E0A", "U6D77">>, <<"U5E7F", "U5DDE">>,
                 <<"U6DF1", "U5733">>, <<"U6210", "U90FD">>, <<"U897F", "U5B89">>,
                 <<"U676D", "U5DDE">>, <<"U5357", "U4EAC">>
               >>]
      []
         t = "INTERNATIONAL" ->
            [hub_groups |-> <<"yazhou_menhu", "zhongdong_shuniu", "ouzhou_shuniu", "beimei_shuniu", "dayangzhou_shuniu", "nanya_shuniu", "feizhou_shuniu", "zhongnanmei_shuniu">>,
             recommended_domestic |-> <<>>]]

\* ALL_HUBS.values() in the order of the dictionary: the city, the members of
\* hub_types, level.value and air_rail_tier.value (0 for None)
Hub(city, hub_types, level, air_rail_tier) ==
    [city |-> city, hub_types |-> hub_types, level |-> level,
     air_rail_tier |-> air_rail_tier]

ALL_HUBS ==
    <<
     Hub(<<"U5317", "U4EAC">>, {"AIR_RAIL", "AVIATION", "RAILWAY"}, 1, 1),
     Hub(<<"U4E0A", "U6D77">>, {"AIR_RAIL", "AVIATION", "RAILWAY"}, 1, 1),
     Hub(<<"U5E7F", "U5DDE">>, {"AVIATION", "RAILWAY"}, 1, 0),
     Hub(<<"U6210", "U90FD">>, {"AIR_RAIL", "AVIATION", "RAILWAY"}, 2, 1),
     Hub(<<"U6DF1", "U5733">>, {"AIR_RAIL", "AVIATION", "RAILWAY"}, 2, 2),
     Hub(<<"U91CD", "U5E86">>, {"AVIATION", "RAILWAY"}, 2, 0),
     Hub(<<"U6606", "U660E">>, {"AVIATION", "RAILWAY"}, 3, 0),
     Hub(<<"U897F", "U5B89">>, {"AVIATION", "RAILWAY"}, 2, 0),
     Hub(<<"U4E4C", "U9C81", "U6728", "U9F50">>, {"AVIATION", "RAILWAY"}, 3, 0),
     Hub(<<"U54C8", "U5C14", "U6EE8">>, {"AVIATION", "RAILWAY"}, 3, 0),
     Hub(<<"U5929", "U6D25">>, {"AVIATION", "RAILWAY"}, 4, 0),
     Hub(<<"U77F3", "U5BB6", "U5E84">>, {"AIR_RAIL", "AVIATION", "RAILWAY"}, 4, 3),
     Hub(<<"U592A", "U539F">>, {"AVIATION"}, 4, 0),
     Hub(<<"U547C", "U548C", "U6D69", "U7279">>, {"AVIATION"}, 4, 0),
     Hub(<<"U5927", "U8FDE">>, {"AVIATION"}, 4, 0),
     Hub(<<"U6C88", "U9633">>, {"AVIATION", "RAILWAY"}, 3, 0),
     Hub(<<"U957F", "U6625">>, {"AVIATION", "RAILWAY"}, 4, 0),
     Hub(<<"U676D", "U5DDE">>, {"AVIATION", "RAILWAY"}, 3, 0),
     Hub(<<"U5357", "U4EAC">>, {"AVIATION", "RAILWAY"}, 3, 0),
     Hub(<<"U9752", "U5C9B">>, {"AIR_RAIL", "AVIATION"}, 4, 1),
     Hub(<<"U53A6", "U95E8">>, {"AVIATION"}, 4, 0),
     Hub(<<"U5B81", "U6CE2">>, {"AVIATION"}, 4, 0),
     Hub(<<"U5408", "U80A5">>, {"AVIATION", "RAILWAY"}, 4, 0),
     Hub(<<"U5357", "U660C">>, {"AVIATION", "RAILWAY"}, 4, 0),
     Hub(<<"U6D4E", "U5357">>, {"AVIATION", "RAILWAY"}, 4, 0),
     Hub(<<"U6E29", "U5DDE">>, {"AVIATION"}, 4, 0),
     Hub(<<"U70DF", "U53F0">>, {"AVIATION"}, 4, 0),
     Hub(<<"U798F", "U5DDE">>, {"AVIATION"}, 4, 0),
     Hub(<<"U90D1", "U5DDE">>, {"AIR_RAIL", "AVIATION", "RAILWAY"}, 2, 1),
     Hub(<<"U6B66", "U6C49">>, {"AIR_RAIL", "AVIATION", "RAILWAY"}, 2, 1),
     Hub(<<"U957F", "U6C99">>, {"AIR_RAIL", "AVIATION", "RAILWAY"}, 3, 2),
     Hub(<<"U5357", "U5B81">>, {"AVIATION", "RAILWAY"}, 4, 0),
     Hub(<<"U6D77", "U53E3">>, {"AIR_RAIL", "AVIATION", "RAILWAY"}, 4, 1),
     Hub(<<"U4E09", "U4E9A">>, {"AIR_RAIL", "AVIATION", "RAILWAY"}, 4, 1),
     Hub(<<"U6842", "U6797">>, {"AVIATION"}, 4, 0),
     Hub(<<"U8D35", "U9633">>, {"AIR_RAIL", "AVIATION", "RAILWAY"}, 4, 1),
     Hub(<<"U62C9", "U8428">>, {"AVIATION"}, 4, 0),
     Hub(<<"U5170", "U5DDE">>, {"AIR_RAIL", "AVIATION", "RAILWAY"}, 4, 1),
     Hub(<<"U94F6", "U5DDD">>, {"AVIATION"}, 4, 0),
     Hub(<<"U897F", "U5B81">>, {"AVIATION"}, 4, 0),
     Hub(<<"U5F90", "U5DDE">>, {"RAILWAY"}, 4, 0),
     Hub(<<"U65E0", "U9521">>, {"RAILWAY"}, 4, 0),
     Hub(<<"U5E38", "U5DDE">>, {"RAILWAY"}, 4, 0),
     Hub(<<"U8861", "U9633">>, {"RAILWAY"}, 4, 0),
     Hub(<<"U79E6", "U7687", "U5C9B">>, {"RAILWAY"}, 4, 0)
    >>

-----------------------------------------------------------------------------
(* transfer_hubs.py : detect_route_type and TransferHubManager.get_hubs_for_route *)

\* Python's  x in list
InList(x, s) == \E i \in 1..Len(s) : s[i] = x

\* list(dict.fromkeys(s)): the first occurrence of every element, in order
DictFromKeys(s) ==
    LET first == {i \in 1..Len(s) : \A j \in 1..(i-1) : s[j] # s[i]}
    IN  [k \in 1..Cardinality(first) |->
            s[CHOOSE i \in first : Cardinality({j \in first : j <= i}) = k]]

\* the entries a name that is not a key matches: "city_name in city or city in
\* city_name"
FuzzyMatches(city) ==
    {i \in 1..Len(CITY_TO_REGION) :
        \/ Contains(city, CITY_TO_REGION[i][1])
        \/ Contains(CITY_TO_REGION[i][1], city)}

\* the region of the city, by key and then by the first entry that matches;
\* "None" when there is none
get_city_region(city) ==
    IF \E i \in 1..Len(CITY_TO_REGION) : CITY_TO_REGION[i][1] = city
    THEN CITY_TO_REGION[CHOOSE i \in 1..Len(CITY_TO_REGION) :
                           CITY_TO_REGION[i][1] = city][2]
    ELSE IF FuzzyMatches(city) # {}
    THEN CITY_TO_REGION[CHOOSE i \in FuzzyMatches(city) :
                           \A j \in FuzzyMatches(city) : i <= j][2]
    ELSE "None"

chinese_regions ==
    {"CHINA_NORTH", "CHINA_NORTHEAST", "CHINA_EAST", "CHINA_CENTRAL", "CHINA_SOUTH",
     "CHINA_SOUTHWEST", "CHINA_NORTHWEST"}

\* a city of no known region is taken to be domestic
is_chinese_domestic(city) ==
    LET region == get_city_region(city)
    IN  IF region = "None" THEN TRUE ELSE region \in chinese_regions

\* faulty variant: an arrival from Hong Kong, Macao or Taiwan is long-haul
detect_route_type_HkmtInboundLongHaul(from_city, to_city) ==
    LET from_domestic == is_chinese_domestic(from_city)
        to_domestic == is_chinese_domestic(to_city)
        from_region == get_city_region(from_city)
        to_region == get_city_region(to_city)
    IN  IF from_domestic /\ to_domestic THEN "DOMESTIC"
        ELSE IF from_domestic /\ ~ to_domestic
        THEN IF to_region = "SOUTHEAST_ASIA" THEN "DOMESTIC_TO_SOUTHEAST_ASIA"
             ELSE IF to_region = "EAST_ASIA" THEN "DOMESTIC_TO_EAST_ASIA"
             ELSE IF to_region = "HK_MACAO_TAIWAN" THEN "DOMESTIC_TO_EAST_ASIA"
             ELSE "DOMESTIC_TO_LONG_HAUL"
        ELSE IF ~ from_domestic /\ to_domestic
        THEN IF from_region = "SOUTHEAST_ASIA" THEN "SOUTHEAST_ASIA_TO_DOMESTIC"
             ELSE IF from_region = "EAST_ASIA" THEN "EAST_ASIA_TO_DOMESTIC"
             ELSE "INTERNATIONAL_TO_DOMESTIC"
        ELSE "INTERNATIONAL"

detect_route_type(from_city, to_city) ==
    LET from_domestic == is_chinese_domestic(from_city)
        to_domestic == is_chinese_domestic(to_city)
        from_region == get_city_region(from_city)
        to_region == get_city_region(to_city)
    IN  IF from_domestic /\ to_domestic THEN "DOMESTIC"
        ELSE IF from_domestic /\ ~ to_domestic
        THEN IF to_region = "SOUTHEAST_ASIA" THEN "DOMESTIC_TO_SOUTHEAST_ASIA"
             ELSE IF to_region = "EAST_ASIA" THEN "DOMESTIC_TO_EAST_ASIA"
             ELSE IF to_region = "HK_MACAO_TAIWAN" THEN "DOMESTIC_TO_EAST_ASIA"
             ELSE "DOMESTIC_TO_LONG_HAUL"
        ELSE IF ~ from_domestic /\ to_domestic
        THEN IF from_region = "SOUTHEAST_ASIA" THEN "SOUTHEAST_ASIA_TO_DOMESTIC"
             ELSE IF from_region = "EAST_ASIA" THEN "EAST_ASIA_TO_DOMESTIC"
             ELSE IF from_region = "HK_MACAO_TAIWAN" THEN "EAST_ASIA_TO_DOMESTIC"
             ELSE "INTERNATIONAL_TO_DOMESTIC"
        ELSE "INTERNATIONAL"

\* sorted(hubs, key): the key of a hub is a tuple of integers, compared in
\* lexicographic order; hubs of equal key keep their order
KeyLess(a, b) ==
    \E i \in 1..Len(a) : a[i] < b[i] /\ \A j \in 1..(i-1) : a[j] = b[j]

LevelKey(hub) == <<hub.level>>

\* (level.value, -len(hub_types), air_rail_tier.value if air_rail_tier else 99)
PriorityKey(hub) ==
    <<hub.level, 0 - Cardinality(hub.hub_types),
      IF hub.air_rail_tier = 0 THEN 99 ELSE hub.air_rail_tier>>

SortedByKey(hubs, key) ==
    LET rank(i) == 1 + Cardinality({j \in 1..Len(hubs) :
                          \/ KeyLess(key[j], key[i])
                          \/ (key[j] = key[i] /\ j < i)})
    IN  [k \in 1..Len(hubs) |-> hubs[CHOOSE i \in 1..Len(hubs) : rank(i) = k]]

HubsOfType(hub_type) == SelectSeq(ALL_HUBS, LAMBDA h : hub_type \in h.hub_types)

get_aviation_hubs ==
    SortedByKey(HubsOfType("AVIATION"),
                [i \in 1..Len(HubsOfType("AVIATION")) |->
                    LevelKey(HubsOfType("AVIATION")[i])])

get_railway_hubs ==
    SortedByKey(HubsOfType("RAILWAY"),
                [i \in 1..Len(HubsOfType("RAILWAY")) |->
                    LevelKey(HubsOfType("RAILWAY")[i])])

\* the hubs of every type in the order of the "all" branch
HubsByPriority ==
    SortedByKey(ALL_HUBS, [i \in 1..Len(ALL_HUBS) |-> PriorityKey(ALL_HUBS[i])])

CitiesOf(hubs) == [i \in 1..Len(hubs) |-> hubs[i].city]

get_recommended_transfer_cities(transport_type, count) ==
    CitiesOf(Take(IF transport_type = "flight" THEN get_aviation_hubs
                  ELSE IF transport_type = "train" THEN get_railway_hubs
                  ELSE HubsByPriority,
                  count))

\* "for group in strategy.get('hub_groups', []): intl_hubs.extend(...)"
GroupHubs(strategy) == ConcatMap(LAMBDA g : INTERNATIONAL_HUBS[g], strategy.hub_groups)

Without(s, other) == SelectSeq(s, LAMBDA h : ~ InList(h, other))

\* step 2 of get_hubs_for_route: the list of the branch of the route type, cut
\* to count elements
SelectHubs(rtype, count, transport_type, use_international) ==
    LET strategy == ROUTE_TRANSFER_STRATEGY[rtype]
        domestic_hubs == strategy.recommended_domestic
        intl_hubs == GroupHubs(strategy)
    IN  IF rtype = "DOMESTIC"
        THEN get_recommended_transfer_cities(transport_type, count)
        ELSE IF rtype \in {"DOMESTIC_TO_SOUTHEAST_ASIA", "DOMESTIC_TO_EAST_ASIA"}
        THEN IF use_international
             THEN Take(domestic_hubs \o Without(intl_hubs, domestic_hubs), count)
             ELSE Take(domestic_hubs, count)
        ELSE IF rtype = "DOMESTIC_TO_LONG_HAUL"
        THEN IF use_international
             THEN Take(DictFromKeys(intl_hubs), count)
             ELSE Take(domestic_hubs, count)
        ELSE IF rtype \in {"SOUTHEAST_ASIA_TO_DOMESTIC", "EAST_ASIA_TO_DOMESTIC",
                           "INTERNATIONAL_TO_DOMESTIC"}
        THEN IF use_international
             THEN Take(DictFromKeys(intl_hubs \o Without(domestic_hubs, intl_hubs)),
                       count)
             ELSE Take(domestic_hubs, count)
        ELSE Take(DictFromKeys(intl_hubs), count)

\* step 3: "[h for h in hubs if h != from_city and h != to_city]"
ExcludeEndpoints(hubs, from_city, to_city) ==
    SelectSeq(hubs, LAMBDA h : h # from_city /\ h # to_city)

\* the hub list and the route type get_hubs_for_route returns
get_hubs_for_route(from_city, to_city, count, transport_type, use_international) ==
    LET rtype == detect_route_type(from_city, to_city)
    IN  [hubs |-> ExcludeEndpoints(
                      SelectHubs(rtype, count, transport_type, use_international),
                      from_city, to_city),
         route_type |-> rtype]

Guangzhou == <<"U5E7F", "U5DDE">>
HongKong == <<"U9999", "U6E2F">>
Tokyo == <<"U4E1C", "U4EAC">>
Singapore == <<"U65B0", "U52A0", "U5761">>
SanFrancisco == <<"U65E7", "U91D1", "U5C71">>
London == <<"U4F26", "U6566">>
Dubai == <<"U8FEA", "U62DC">>
Sydney == <<"U6089", "U5C3C">>

\* cities of every kind of region, a name with a suffix (曼谷素万那普), a name of
\* no region (长治) and a single character (京)
RouteCities ==
    {Beijing, Shanghai, Guangzhou, Changzhi, JingChar, HongKong, Tokyo, Bangkok,
     BangkokSuvarnabhumi, Singapore, SanFrancisco, London, Dubai, Sydney}

DefaultMaxCount == 15
LargestMaxCount == 30
MaxCounts == {1, 5, DefaultMaxCount, 20, LargestMaxCount}

InitHubs ==
    /\ origin \in RouteCities /\ destination \in RouteCities
    /\ transport_filter \in {"all", "flight", "train"}
    /\ max_count \in MaxCounts
    /\ use_international_hubs \in BOOLEAN
    /\ route_type = "" /\ hubs_pc = "ready"
    /\ hub_cities = <<>> /\ date = BaseDay
    /\ include_direct = TRUE /\ queries = <<>> /\ plan_pc = "idle"
    /\ RouteIdle
    /\ flight_running = TRUE /\ train_running = TRUE
    /\ segment_results = EmptyMap /\ station_cache = EmptyMap /\ station_cache_lock = 0
    /\ max_workers = 15 /\ exec_pc = "idle" /\ completed = 0
    /\ workers = EmptyMap /\ flight_idx = 1 /\ flight_pc = "next"
    /\ retry_count = 0 /\ flight_history = <<>> /\ flight_result = EmptyMap
    /\ progress_calls = <<>> /\ returned_map = EmptyMap
    /\ results_before_run = EmptyMap /\ station_calls = EmptyMap
    /\ results_order = <<>> /\ provider = AnyReply
    /\ run_no = 1 /\ first_plans = <<>> /\ cancel_signalled = FALSE
    /\ StandaloneIdle

\* TransferHubManager.get_hubs_for_route(origin, destination, max_count,
\* transport_filter, use_international_hubs)
GetHubsForRoute ==
    /\ hubs_pc = "ready"
    /\ LET result == get_hubs_for_route(origin, destination, max_count,
                                        transport_filter, use_international_hubs)
       IN  /\ hub_cities' = result.hubs
           /\ route_type' = result.route_type
    /\ hubs_pc' = "done"
    /\ UNCHANGED <<origin, destination, date, segment_data,
                   accommodation_threshold_hours, accommodation_enabled,
                   all_routes, feasible_routes, calc_pc>>
    /\ UNCHANGED <<max_count, use_international_hubs>>
    /\ UNCHANGED <<run_no, first_plans, cancel_signalled, standaloneVars>>
    /\ UNCHANGED <<planVars, gatewayVars, flightLoopVars>>
    /\ UNCHANGED <<segment_results, station_cache, station_cache_lock, exec_pc, completed, workers,
                   progress_calls, returned_map, results_before_run, station_calls,
                   results_order>>

NextHubs == GetHubsForRoute

SpecHubs == InitHubs /\ [][NextHubs]_vars

-----------------------------------------------------------------------------
(* Claims on route types and hub selection, checked under SpecHubs *)

\* the tag of the opposite direction
MirrorTag(t) ==
    CASE t = "DOMESTIC" -> "DOMESTIC"
      [] t = "INTERNATIONAL" -> "INTERNATIONAL"
      [] t = "DOMESTIC_TO_SOUTHEAST_ASIA" -> "SOUTHEAST_ASIA_TO_DOMESTIC"
      [] t = "SOUTHEAST_ASIA_TO_DOMESTIC" -> "DOMESTIC_TO_SOUTHEAST_ASIA"
      [] t = "DOMESTIC_TO_EAST_ASIA" -> "EAST_ASIA_TO_DOMESTIC"
      [] t = "EAST_ASIA_TO_DOMESTIC" -> "DOMESTIC_TO_EAST_ASIA"
      [] t = "DOMESTIC_TO_LONG_HAUL" -> "INTERNATIONAL_TO_DOMESTIC"
      [] t = "INTERNATIONAL_TO_DOMESTIC" -> "DOMESTIC_TO_LONG_HAUL"

\* C17: the route type of (b, a) is the route type of (a, b) when both cities
\* are domestic or both international, and the tag of the opposite direction
\* otherwise (to South-East Asia / from South-East Asia, to East Asia / from
\* East Asia, to long-haul / international to domestic).
C17_RouteTypeMirrors ==
    hubs_pc = "done" =>
        /\ route_type = detect_route_type(origin, destination)
        /\ detect_route_type(destination, origin) = MirrorTag(route_type)
        /\ (is_chinese_domestic(origin) = is_chinese_domestic(destination))
              => detect_route_type(destination, origin) = route_type

\* the route 北京 -> 香港 has been classified: a region that has no tag of its
\* own and is filed under East Asia in both directions
C17_Witness ==
    /\ hubs_pc = "done"
    /\ origin = Beijing /\ destination = HongKong
    /\ route_type = "DOMESTIC_TO_EAST_ASIA"

\* the cities of the list
Cities(s) == {s[i] : i \in 1..Len(s)}

\* C18 (as claimed): for 北京 -> 旧金山 with the defaults (max_count 15,
\* international hubs enabled) the route is domestic-to-long-haul and the hub
\* list holds a city of 亚洲门户, a city of 北美枢纽, and not 北京.
C18_LongHaulHubsCoverBothEnds ==
    ( /\ hubs_pc = "done"
      /\ origin = Beijing /\ destination = SanFrancisco
      /\ max_count = DefaultMaxCount /\ use_international_hubs )
    => /\ route_type = "DOMESTIC_TO_LONG_HAUL"
       /\ Cities(hub_cities) \cap Cities(INTERNATIONAL_HUBS["yazhou_menhu"]) # {}
       /\ Cities(hub_cities) \cap Cities(INTERNATIONAL_HUBS["beimei_shuniu"]) # {}
       /\ Beijing \notin Cities(hub_cities)

\* the candidates of the route: the list of its branch before it is cut
LargestList == 200

CandidatePool ==
    SelectHubs(detect_route_type(origin, destination), LargestList, transport_filter,
               use_international_hubs)

\* C19 (as claimed): the hub list is the first max_count cities of the
\* candidates left once origin and destination are removed, and its length is
\* the smaller of max_count and the number of distinct candidates other than
\* origin and destination.
C19_FirstMaxCountAfterExclusion ==
    hubs_pc = "done" =>
        /\ hub_cities = Take(ExcludeEndpoints(CandidatePool, origin, destination),
                             max_count)
        /\ Len(hub_cities) =
              Min(max_count, Cardinality(Cities(CandidatePool) \ {origin, destination}))

\* C20 (as claimed): the hub list holds no city twice, whatever the origin, the
\* destination, the transport filter, use_international_hubs and max_count.
C20_NoCityTwice ==
    hubs_pc = "done" =>
        \A i, j \in 1..Len(hub_cities) : hub_cities[i] = hub_cities[j] => i = j

-----------------------------------------------------------------------------
(* route_calculator.py : _check_transfer_feasibility called on its own, for one
   pair of segments on a base date and on the base date shifted *)

ProbeStep == 90

\* arrival times of the first segment and departure times of the second
ProbeTimes == {t \in 0..(DayMinutes - 1) : t % ProbeStep = 0} \cup {DayMinutes - 15}

\* an ordinary date and the last four dates of datetime
ProbeDates == {BaseDay, LastDay - 3, LastDay - 2, LastDay - 1, LastDay}

ProbeShifts == {0 - 2, 0 - 1, 1, 2, 365}

InitShift ==
    /\ \E arr \in ProbeTimes, dep \in ProbeTimes, cross \in {0, 1},
          base \in ProbeDates, shift \in ProbeShifts, k \in {2, 3} :
          probe_in = [seg1 |-> Rec("N1", 0, arr, 60, cross, 100),
                      seg2 |-> Rec("N2", dep, 0, 60, 0, 100),
                      base_date |-> base, shift |-> shift,
                      min_transfer_hours |-> k]
    /\ probe_out = <<>> /\ WarmupIdle
    /\ origin = cO /\ destination = cD /\ date = BaseDay /\ hub_cities = <<>>
    /\ RouteIdle /\ PlanIdle
    /\ flight_running = TRUE /\ train_running = TRUE
    /\ segment_results = EmptyMap /\ station_cache = EmptyMap /\ station_cache_lock = 0
    /\ max_workers = 15 /\ exec_pc = "idle" /\ completed = 0
    /\ workers = EmptyMap /\ flight_idx = 1 /\ flight_pc = "next"
    /\ retry_count = 0 /\ flight_history = <<>> /\ flight_result = EmptyMap
    /\ progress_calls = <<>> /\ returned_map = EmptyMap
    /\ results_before_run = EmptyMap /\ station_calls = EmptyMap
    /\ results_order = <<>> /\ provider = AnyReply
    /\ run_no = 1 /\ first_plans = <<>> /\ cancel_signalled = FALSE
    /\ HubsIdle

\* _check_transfer_feasibility(seg1, seg2, base_date, k) and the same call with
\* the base date shifted
CheckTransferFeasibility ==
    /\ probe_in # <<>> /\ probe_out = <<>>
    /\ probe_out' =
          [here |-> check_transfer_feasibility(probe_in.seg1, probe_in.seg2,
                        probe_in.base_date, probe_in.min_transfer_hours),
           shifted |-> check_transfer_feasibility(probe_in.seg1, probe_in.seg2,
                        probe_in.base_date + probe_in.shift,
                        probe_in.min_transfer_hours)]
    /\ UNCHANGED <<probe_in, warmupVars, routeVars, planVars>>
    /\ UNCHANGED <<gatewayVars, flightLoopVars, hubSelectionVars>>
    /\ UNCHANGED <<run_no, first_plans, cancel_signalled>>
    /\ UNCHANGED <<segment_results, station_cache, station_cache_lock, exec_pc, completed, workers,
                   progress_calls, returned_map, results_before_run, station_calls,
                   results_order>>

NextShift == CheckTransferFeasibility

SpecShift == InitShift /\ [][NextShift]_vars

\* the first segment arrives at least two days before the end of datetime, so
\* that no date the check computes is out of range
ArrivalInRange(seg1, base_date) ==
    /\ base_date >= 0
    /\ base_date + seg1.cross_days + (DAY_OFFSETS - 1) <= LastDay

SameVerdict(a, b) == a.feasible = b.feasible /\ a.wait_minutes = b.wait_minutes

\* C21 (as claimed): the check on the base date and the check on the shifted
\* base date return the same verdict and the same wait, for all base dates and
\* all shifts.
C21_ShiftKeepsVerdict ==
    probe_out # <<>> => SameVerdict(probe_out.here, probe_out.shifted)

\* C21 (amended): they do whenever, on both dates, the first segment arrives at
\* least two days before 9999-12-31.
C21_ShiftKeepsVerdictInRange ==
    ( /\ probe_out # <<>>
      /\ ArrivalInRange(probe_in.seg1, probe_in.base_date)
      /\ ArrivalInRange(probe_in.seg1, probe_in.base_date + probe_in.shift) )
    => SameVerdict(probe_out.here, probe_out.shifted)

\* a transfer to a departure on the next day, found feasible on a date near the
\* end of the range and on the date shifted back
C21_Witness ==
    /\ probe_out # <<>>
    /\ probe_in.base_date = LastDay - 3 /\ probe_in.shift = 0 - 2
    /\ probe_in.seg1.cross_days = 1
    /\ probe_out.here.feasible /\ probe_out.here.wait_minutes > 12 * 60
    /\ probe_in.seg2.departure_time < probe_in.seg1.arrival_time

\* ---------------------------------------------------------------------------
\* Three-leg candidates per hub pair
\* ---------------------------------------------------------------------------

\* the three-leg plans of all_routes built for one hub pair, one triple of modes
\* and one minimum transfer time
ThreeLegPlansFor(hub1, hub2, types, k) ==
    {i \in 1..Len(all_routes) :
        /\ Len(all_routes[i].segments) = 3
        /\ all_routes[i].transfer_cities = <<hub1, hub2>>
        /\ all_routes[i].route_type = types
        /\ all_routes[i].min_transfer_hours = k}

HubSet == {hub_cities[i] : i \in 1..Len(hub_cities)}

NoHubTwice == Cardinality(HubSet) = Len(hub_cities)

ThreeLegTypes == {ThreeLegCombos[i] : i \in 1..Len(ThreeLegCombos)}

StationCallOutstanding ==
    {i \in DOMAIN workers : workers[i].pc \in {"gsc_from_wait", "gsc_to_wait"}}

\* C23: no task has a station-code provider call outstanding while it holds the
\* station-code cache lock; the lock is held only while the cache is looked up
\* or written.
C23_NoProviderCallUnderCacheLock ==
    /\ \A i \in StationCallOutstanding : station_cache_lock # i
    /\ station_cache_lock # 0 =>
          /\ station_cache_lock \in DOMAIN workers
          /\ workers[station_cache_lock].pc \in {"gsc_from_locked", "gsc_to_locked"}

\* one task waits for the provider while another one is inside the lookup block
C23_Witness ==
    \E i \in StationCallOutstanding :
        /\ station_cache_lock # 0 /\ station_cache_lock # i
        /\ workers[station_cache_lock].pc \in {"gsc_from_locked", "gsc_to_locked"}

-----------------------------------------------------------------------------
(* warmup_flight_service called any number of times on one engine *)

MaxWarmupCalls == 3

\* what call_tool may answer to the warm-up query
WarmupOutcomes ==
    { Reply(FlightList3), Reply(ToolTimeout(FlightTool)), Reply(NotConnected(FLIGHT)),
      Reply(UnknownTool(FlightTool)), Reply(ToolFailed),
      Reply(<<"{", "error", ":", " ", "E", "}">>), Reply(<<>>), Raised }

\* result and "超时" not in result and "error" not in result.lower()
WarmupReplyAccepted(result) ==
    /\ result # <<>>
    /\ ~ Contains(result, <<"chaoshi">>)
    /\ ~ Contains(Lower(result), <<"error">>)

WarmupCall(outcome, reached, returned, flag) ==
    [outcome |-> outcome, reached_provider |-> reached, returned |-> returned,
     flag_after |-> flag]

\* the outcome recorded for a call that made no provider call
NoCall == [raised |-> FALSE, data |-> <<"-">>]

InitWarmup ==
    /\ flight_warmed_up = FALSE /\ warmup_calls = <<>>
    /\ probe_in = <<>> /\ probe_out = <<>>
    /\ origin = cO /\ destination = cD /\ date = BaseDay /\ hub_cities = <<>>
    /\ RouteIdle /\ PlanIdle
    /\ flight_running \in BOOLEAN /\ train_running = TRUE
    /\ segment_results = EmptyMap /\ station_cache = EmptyMap /\ station_cache_lock = 0
    /\ max_workers = 15 /\ exec_pc = "idle" /\ completed = 0
    /\ workers = EmptyMap /\ flight_idx = 1 /\ flight_pc = "next"
    /\ retry_count = 0 /\ flight_history = <<>> /\ flight_result = EmptyMap
    /\ progress_calls = <<>> /\ returned_map = EmptyMap
    /\ results_before_run = EmptyMap /\ station_calls = EmptyMap
    /\ results_order = <<>> /\ provider = AnyReply
    /\ run_no = 1 /\ first_plans = <<>> /\ cancel_signalled = FALSE
    /\ HubsIdle

WarmupFrame ==
    /\ UNCHANGED <<probe_in, probe_out, routeVars, planVars>>
    /\ UNCHANGED <<train_running, max_workers, provider>>
    /\ UNCHANGED <<flightLoopVars, hubSelectionVars>>
    /\ UNCHANGED <<run_no, first_plans, cancel_signalled>>
    /\ UNCHANGED <<segment_results, station_cache, station_cache_lock, exec_pc, completed,
                   workers, progress_calls, returned_map, results_before_run,
                   station_calls, results_order>>

\* SegmentQueryEngine.warmup_flight_service, the whole call
WarmupFlightService ==
    /\ Len(warmup_calls) < MaxWarmupCalls
    /\ IF flight_warmed_up
       THEN /\ warmup_calls' = Append(warmup_calls, WarmupCall(NoCall, FALSE, TRUE, TRUE))
            /\ UNCHANGED flight_warmed_up
       ELSE IF ~ flight_running
       THEN /\ warmup_calls' = Append(warmup_calls, WarmupCall(NoCall, FALSE, FALSE, FALSE))
            /\ UNCHANGED flight_warmed_up
       ELSE \E outcome \in WarmupOutcomes :
              LET ok == ~ outcome.raised /\ WarmupReplyAccepted(outcome.data)
              IN  /\ flight_warmed_up' = ok
                  /\ warmup_calls' = Append(warmup_calls, WarmupCall(outcome, TRUE, ok, ok))
    /\ UNCHANGED flight_running
    /\ WarmupFrame

\* MCPServiceManager.start_flight_mcp / stop_flight_mcp between two warm-ups
SwitchFlightService ==
    /\ Len(warmup_calls) < MaxWarmupCalls
    /\ flight_running' = ~ flight_running
    /\ UNCHANGED <<flight_warmed_up, warmup_calls>>
    /\ WarmupFrame

NextWarmup == WarmupFlightService \/ SwitchFlightService

SpecWarmup == InitWarmup /\ [][NextWarmup]_vars

\* a warm-up that the claim counts as failing: the flight service was not
\* running, the provider raised, or the reply is a timeout or an error reply
FailingWarmup(c) ==
    \/ ~ c.reached_provider /\ ~ c.returned
    \/ c.reached_provider /\ c.outcome.raised
    \/ c.reached_provider /\ ~ c.outcome.raised
         /\ (c.outcome.data \in GatewayErrorReplies
             \/ Contains(Lower(c.outcome.data), <<"error">>))

\* once a call has succeeded the flag stays true and no later call reaches the
\* flight provider
WarmedUpForGood ==
    \A n \in 1..Len(warmup_calls) :
        warmup_calls[n].returned =>
            /\ flight_warmed_up
            /\ \A m \in (n + 1)..Len(warmup_calls) :
                  /\ ~ warmup_calls[m].reached_provider
                  /\ warmup_calls[m].returned

\* C24: for every sequence of warm-up calls on one engine, once a call has
\* succeeded the flag stays true forever and no later call reaches the flight
\* provider; a warm-up that fails (timeout, error reply, exception, flight
\* service not running) returns false and leaves the flag false.
C24_WarmupOnceAndFailuresHarmless ==
    /\ WarmedUpForGood
    /\ \A n \in 1..Len(warmup_calls) :
          FailingWarmup(warmup_calls[n]) =>
              ~ warmup_calls[n].returned /\ ~ warmup_calls[n].flag_after

-----------------------------------------------------------------------------
(* The train_get-tickets call of a train segment query, checked under Spec *)

\* train tasks whose query_single_segment has returned
ReturnedTrainTasks ==
    {i \in DOMAIN workers : workers[i].pc \in {"record", "callback", "done"}}

\* the task made no get-tickets call and its result says success = false
NoTicketsCallAndFailed(i) ==
    /\ workers[i].tickets_calls = 0
    /\ ~ workers[i].result.success

\* C25: every train segment query calls train_get-tickets at most once per run,
\* and not at all, with success = false, when the train service is not running
\* or the station code of either end is the empty string.
C25_TicketsCalledAtMostOnce ==
    /\ \A i \in DOMAIN workers : workers[i].tickets_calls <= 1
    /\ \A i \in ReturnedTrainTasks :
          (~ train_running \/ workers[i].from_station = <<>>
             \/ workers[i].to_station = <<>>)
          => NoTicketsCallAndFailed(i)

\* one task has returned without a call because only its destination has no
\* station code, another one has made its call
C25_Witness ==
    /\ train_running
    /\ \E i \in ReturnedTrainTasks :
          /\ workers[i].from_station # <<>> /\ workers[i].to_station = <<>>
          /\ workers[i].pc = "done"
    /\ \E j \in ReturnedTrainTasks : workers[j].tickets_calls = 1

-----------------------------------------------------------------------------
(* Which flight replies are taken for empty, checked under Spec *)

\* a reply the validator accepts and that does not report zero flights
ReportsSomeFlights(outcome) ==
    /\ ~ outcome.raised
    /\ is_valid_response(outcome.data)
    /\ ~ ReportsZeroFlights(outcome.data)

\* C26: a valid flight reply is taken for empty (retried, the query failed after
\* the last attempt) only if it reports zero flights; every valid reply that
\* reports one or more flights (10 or 20, say) ends the attempts at once and is
\* recorded with success = true and as the payload.
C26_OnlyZeroFlightRepliesCountAsEmpty ==
    (exec_pc = "phase2" /\ flight_running /\ flight_pc \in {"wait", "record"}) =>
        \A k \in 1..Len(flight_history) :
            ReportsSomeFlights(flight_history[k]) =>
                /\ k = Len(flight_history)
                /\ flight_pc = "record"
                /\ flight_result.success
                /\ flight_result.data = flight_history[k].data

-----------------------------------------------------------------------------
(* The 3 h two-leg plans among the 2 h ones, checked under SpecRoute *)

\* the same plan computed for a minimum transfer time of 2 h
TwoHourTwin(r) == [r EXCEPT !.min_transfer_hours = 2]

\* C27: a transfer that is feasible for a minimum of 3 h with wait w is feasible
\* for 2 h with the same wait; so every two-leg plan emitted for 3 h is emitted
\* for 2 h too, with the same wait, accommodation fee, total price and total
\* duration.
C27_ThreeHourPlansAmongTwoHourPlans ==
    calc_pc = "done" =>
        /\ \A r \in Enumerated :
              (Len(r.segments) = 2 /\ r.min_transfer_hours = 3 /\ r.feasible)
                  => TwoHourTwin(r) \in Enumerated
        /\ \A r \in Returned :
              (Len(r.segments) = 2 /\ r.min_transfer_hours = 3)
                  => \E t \in Returned :
                        /\ t.min_transfer_hours = 2
                        /\ t.segments = r.segments
                        /\ t.transfer_cities = r.transfer_cities
                        /\ t.transfer_wait_minutes = r.transfer_wait_minutes
                        /\ t.accommodation_fee = r.accommodation_fee
                        /\ t.total_price = r.total_price
                        /\ t.total_duration_minutes = r.total_duration_minutes

\* a 3 h plan that waits overnight and pays for it is returned, with its 2 h twin
C27_Witness ==
    /\ calc_pc = "done"
    /\ \E r \in Returned :
          /\ Len(r.segments) = 2 /\ r.min_transfer_hours = 3
          /\ r.transfer_wait_minutes[1] > 12 * 60 /\ r.accommodation_fee > 0
          /\ TwoHourTwin(r) \in Returned

-----------------------------------------------------------------------------
(* build_segment_queries, a run in which every query succeeds, and
   calculate_all_routes on its results *)

\* city names with and without "_", and one that differs from another by case only
PipeNames ==
    { <<"a">>, <<"b">>, <<"A">>, <<"a", "_", "b">>, <<"b", "_", "a">> }

PipeEnds ==
    PipeNames \cup { <<"a", "_", "b", "_", "a">>, <<"b", "_", "a", "_", "b">> }

MaxPipeHubs == 2

PipeHubLists == UNION {[1..n -> PipeNames] : n \in 2..MaxPipeHubs}

\* a reply that holds one morning service; the same service of the next day
\* connects to it
PipePayload == << Rec("P1", 6 * 60, 7 * 60, 60, 0, 100) >>

InitPipe ==
    /\ origin \in PipeEnds /\ destination \in PipeEnds
    /\ hub_cities \in PipeHubLists
    /\ \A i \in 1..Len(hub_cities) :
          hub_cities[i] # origin /\ hub_cities[i] # destination
    /\ date = BaseDay
    /\ include_direct = TRUE
    /\ transport_filter \in (IF Len(hub_cities) = 2 THEN {"all", "flight"} ELSE {"flight"})
    /\ queries = <<>> /\ plan_pc = "ready"
    /\ RouteIdle
    /\ ExecIdle

\* build_summary_for_ai: segment_data (a dict keyed by segment id) when every
\* query of the run succeeded
CollectSegmentData ==
    /\ plan_pc = "done" /\ calc_pc = "idle"
    /\ segment_data' =
          ConcatMap(LAMBDA i :
                      IF \E j \in 1..(i - 1) : queries[j].segment_id = queries[i].segment_id
                      THEN <<>>
                      ELSE <<Entry(queries[i].segment_id, queries[i].mode, PipePayload)>>,
                    [i \in 1..Len(queries) |-> i])
    /\ calc_pc' = "ready"
    /\ UNCHANGED <<origin, destination, date, hub_cities,
                   accommodation_threshold_hours, accommodation_enabled,
                   all_routes, feasible_routes>>
    /\ UNCHANGED planVars
    /\ UNCHANGED execVars

NextPipe == BuildSegmentQueries \/ CollectSegmentData \/ CalculateAllRoutes

SpecPipe == InitPipe /\ [][NextPipe]_vars

\* the parsed segments calculate_all_routes works on
ParsedSegments == parse_all_segments(segment_data, origin, destination, hub_cities)

\* a parsed segment that runs from one hub of the list to another
HubToHub(seg) == seg.departure_city \in HubSet /\ seg.arrival_city \in HubSet

\* C28: when the segment data comes from the ids of build_segment_queries only
\* and the hub list holds neither the origin nor the destination, no pool runs
\* from a hub to a hub, and every plan has at most two segments.
C28_NoThreeLegPlansFromBuiltQueries ==
    calc_pc = "done" =>
        /\ \A key \in DOMAIN ParsedSegments :
              \A n \in 1..Len(ParsedSegments[key]) : ~ HubToHub(ParsedSegments[key][n])
        /\ \A r \in Enumerated : Len(r.segments) <= 2
        /\ \A r \in Returned : Len(r.segments) <= 2

\* two-leg plans are returned, and the key of a pool that ends at the
\* destination or leaves the origin reads as the key from one hub to another
C28_Witness ==
    /\ calc_pc = "done"
    /\ \E r \in Returned : Len(r.segments) = 2
    /\ \E h1 \in HubSet, h2 \in HubSet :
          h1 # h2 /\ SegmentKey(h1, h2, FLIGHT) \in DOMAIN ParsedSegments

-----------------------------------------------------------------------------
(* get_smart_hub_cities followed by build_segment_queries: the queries planned
   for the recommended hubs of a route *)

InitHubPlan ==
    /\ InitHubs
    /\ max_count = DefaultMaxCount /\ use_international_hubs = TRUE

\* build_segment_queries(origin, destination, date, hubs) with the hubs that
\* get_smart_hub_cities returned
BuildQueriesForHubs ==
    /\ hubs_pc = "done" /\ plan_pc = "idle"
    /\ queries' = build_segment_queries(origin, destination, date, hub_cities,
                                        include_direct, transport_filter)
    /\ plan_pc' = "done"
    /\ UNCHANGED <<include_direct, transport_filter>>
    /\ UNCHANGED routeVars
    /\ UNCHANGED execVars

NextHubPlan == GetHubsForRoute \/ BuildQueriesForHubs

SpecHubPlan == InitHubPlan /\ [][NextHubPlan]_vars

\* C29: no emitted train query has an endpoint for which is_chinese_domestic is
\* false (Hong Kong, Macao and the cities of Taiwan included), be the city the
\* origin, the destination or one of the recommended hubs.
C29_NoTrainQueryForNonDomesticCity ==
    plan_pc = "done" =>
        \A i \in 1..Len(queries) :
            queries[i].mode = TRAIN =>
                /\ is_chinese_domestic(queries[i].from_city)
                /\ is_chinese_domestic(queries[i].to_city)

-----------------------------------------------------------------------------
(* The progress callback over a run, checked under Spec *)

\* C30: in a run of N queries the progress callback is invoked exactly N times,
\* and the completed values it is given are 1..N, each exactly once.
C30_ProgressCountsEachQueryOnce ==
    exec_pc = "returned" =>
        /\ Len(progress_calls) = Len(queries)
        /\ \A n \in 1..Len(queries) :
              Cardinality({c \in 1..Len(progress_calls) : progress_calls[c] = n}) = 1
=============================================================================
